---- MODULE Spec2Model ----
(***************************************************************************)
(* Control plane of the Kosmos research loop:                              *)
(*   kosmos/core/convergence.py  ConvergenceDetector                       *)
(*   kosmos/core/memory.py       MemoryStore (experiment deduplication)    *)
(*   kosmos/core/feedback.py     FeedbackLoop                              *)
(*                                                                         *)
(* Scores, confidences and learning rates are fixed-point numbers in       *)
(* tenths (0.3 is 3, 1.0 is 10).  Costs are in units of 1000 dollars.      *)
(* A quotient a/b is kept as the pair [num |-> a, den |-> b] and compared  *)
(* by cross-multiplication, so no rounding is introduced by the model.     *)
(***************************************************************************)
EXTENDS Integers, Sequences, FiniteSets, TLC

VARIABLES
    mandatory_criteria,     \* ConvergenceDetector.mandatory_criteria
    optional_criteria,      \* ConvergenceDetector.optional_criteria
    metrics,                \* ConvergenceDetector.metrics
    plan,                   \* the caller's ResearchPlan, handed to the detector by reference
    call,                   \* the last ConvergenceDetector call on the current plan and metrics
    decision,               \* the StoppingDecision that call returned
    experiment_signatures,  \* MemoryStore.experiment_signatures
    recorded,               \* history: the (statement, protocol) pairs given to record_experiment
    dup,                    \* the last is_duplicate_experiment call and what it returned
    memories,               \* MemoryStore.memories: category -> list of Memory
    now,                    \* datetime.utcnow(), in days since the store was constructed
    next_memory,            \* identity of the next Memory object created
    mq,                     \* the last call on the memories and its outcome
    hypotheses,             \* the caller's Hypothesis objects: id -> confidence_score
    success_patterns,       \* FeedbackLoop.success_patterns, in insertion order
    failure_patterns,       \* FeedbackLoop.failure_patterns, in insertion order
    pending_signals,        \* FeedbackLoop.pending_signals
    applied_signals,        \* FeedbackLoop.applied_signals
    next_signal,            \* identity of the next FeedbackSignal object created
    processed,              \* history: the results given to process_result_feedback
    fb,                     \* the last FeedbackLoop call and its outcome
    threads                 \* the concurrent callers of process_result_feedback: position and locals

vars == <<mandatory_criteria, optional_criteria, metrics, plan, call, decision,
          experiment_signatures, recorded, dup, memories, now, next_memory, mq,
          hypotheses, success_patterns, failure_patterns, pending_signals,
          applied_signals, next_signal, processed, fb, threads>>

convVars == <<mandatory_criteria, optional_criteria, metrics, plan, call, decision>>
storeVars == <<memories, now, next_memory, mq>>
memVars  == <<experiment_signatures, recorded, dup, memories, now, next_memory, mq>>
fbVars   == <<hypotheses, success_patterns, failure_patterns, pending_signals,
              applied_signals, next_signal, processed, fb, threads>>

None == "None"


(***************************************************************************)
(* Bounds of the model.                                                    *)
(***************************************************************************)
MaxIter  == 2    \* iteration_count ranges over 0..MaxIter, max_iterations over {1, MaxIter}
MaxTrend == 3    \* metrics updates (observations of the novelty trend) per session
MaxCalls == 2    \* process_result_feedback calls per session
MaxApply == 3    \* apply_feedback calls per session
MaxMemories == 2 \* Memory objects created per session
MaxAccess == 1   \* accesses of one Memory per session
MaxDays  == 40   \* days a session lasts
MaxSimilar == 6  \* Memory objects created per session of the similarity search
MaxMerges == 7   \* process_result_feedback calls per session of the pattern merging
MaxFailures == 5 \* process_result_feedback calls per session of the failure merging
MaxLocal == 3    \* Memory objects created per session of the category-local pruning

(***************************************************************************)
(* ConvergenceDetector (kosmos/core/convergence.py)                        *)
(***************************************************************************)

\* StoppingReason values
ITERATION_LIMIT        == "iteration_limit"
NO_TESTABLE_HYPOTHESES == "no_testable_hypotheses"
NOVELTY_DECLINE        == "novelty_decline"
DIMINISHING_RETURNS    == "diminishing_returns"
USER_REQUESTED         == "user_requested"

\* config.get("novelty_decline_threshold", 0.3), in tenths
novelty_decline_threshold == 3
\* self.novelty_decline_window, the window the detector is configured with
novelty_decline_window == 2
\* config.get("cost_per_discovery_threshold", 1000.0), in units of 1000 dollars
cost_per_discovery_threshold == 1

StoppingDecision(stop, reason, mandatory, conf) ==
    [should_stop |-> stop, reason |-> reason, is_mandatory |-> mandatory, confidence |-> conf]

\* The default criterion lists of the constructor
DefaultMandatory == <<ITERATION_LIMIT, NO_TESTABLE_HYPOTHESES>>
DefaultOptional  == <<NOVELTY_DECLINE, DIMINISHING_RETURNS>>

\* A constructor argument: a list, or omitted (None)
Omitted == [given |-> FALSE, list |-> <<>>]
Given(list) == [given |-> TRUE, list |-> list]

\* ConvergenceDetector.__init__: `arg or default` replaces None and the empty list
OrDefault(arg, default) == IF ~arg.given \/ arg.list = <<>> THEN default ELSE arg.list

\* Criterion lists callers construct detectors with (None: the argument is omitted)
CriteriaArgs ==
    { [mandatory |-> Omitted, optional |-> Omitted],
      [mandatory |-> Given(<<>>), optional |-> Given(<<>>)],
      [mandatory |-> Given(<<NO_TESTABLE_HYPOTHESES, ITERATION_LIMIT>>),
       optional  |-> Given(<<DIMINISHING_RETURNS, NOVELTY_DECLINE>>)],
      [mandatory |-> Given(<<ITERATION_LIMIT>>), optional |-> Given(<<NOVELTY_DECLINE>>)],
      [mandatory |-> Given(<<"bogus", NO_TESTABLE_HYPOTHESES>>),
       optional  |-> Given(<<"bogus", DIMINISHING_RETURNS>>)],
      [mandatory |-> Given(<<NOVELTY_DECLINE, NO_TESTABLE_HYPOTHESES, ITERATION_LIMIT>>),
       optional  |-> Given(<<ITERATION_LIMIT, DIMINISHING_RETURNS>>)] }

\* The detectors used where only the optional criteria are studied
CriteriaArgsOpt ==
    { [mandatory |-> Omitted, optional |-> Omitted],
      [mandatory |-> Given(<<ITERATION_LIMIT>>),
       optional  |-> Given(<<DIMINISHING_RETURNS, NOVELTY_DECLINE>>)] }

\* The part of a ResearchPlan the detector reads: tested_hypotheses is
\* len(tested_hypotheses), hypothesis_pool is len(hypothesis_pool), untested is
\* len(get_untested_hypotheses()), experiment_queue is len(experiment_queue).
\* The pool is made of the tested and the untested hypotheses.
Plan(iteration_count, max_iterations, tested, untested, experiment_queue) ==
    [iteration_count |-> iteration_count, max_iterations |-> max_iterations,
     tested_hypotheses |-> tested, hypothesis_pool |-> tested + untested,
     untested |-> untested, experiment_queue |-> experiment_queue]

Plans ==
    { Plan(i, m, 1, u, q) : i \in 0..MaxIter, m \in {1, MaxIter}, u \in {0, 1}, q \in {0, 1} }

\* Two plans, one on which no mandatory criterion fires and one at its limit
PlansOpt == { Plan(0, 1, 1, 1, 0), Plan(1, 1, 1, 0, 1) }

\* Plans on which no mandatory criterion fires, with every pool of at most
\* three hypotheses, the empty pool included
PlansMetrics == { Plan(0, 1, t, u, 1) : t \in 0..2, u \in 0..1 }

\* Hypothesis.novelty_score is None
NoScore == -1

\* Hypothesis lists, each hypothesis given by its novelty_score (tenths, or NoScore)
HypothesisLists == { <<>>, <<NoScore>>, <<2>>, <<5, NoScore>>, <<5, 2>>, <<2, NoScore, 5>> }
HypothesisListsFew == { <<>>, <<5>> }
HypothesisListsMetrics == { <<>>, <<NoScore>>, <<5, 2>>, <<5, 2, 2>>, <<2, 5, NoScore>> }
\* Hypothesis lists without a novelty score
HypothesisListsNoScore == { <<>>, <<NoScore>>, <<NoScore, NoScore>> }

\* Result lists, each result given by its supports_hypothesis (tri-state)
ResultLists == { <<>>, <<"false", None>>, <<"true">>, <<"true", "false", "true">> }
ResultListsFew == { <<>>, <<"true">> }

\* Values a caller writes into metrics.total_cost (units of 1000 dollars)
Costs == {0, 2, 3}
CostsFew == {0, 2}

\* total_cost / significant_results, as an exact quotient
Quotient(cost, n) == [num |-> cost, den |-> n]

\* cost_per_discovery is None
NoQuotient == [num |-> 0, den |-> 0]

\* The float 0.0 as a quotient
Zero == Quotient(0, 1)

\* ConvergenceMetrics() as constructed
InitMetrics ==
    [discovery_rate |-> Zero, total_experiments |-> 0, significant_results |-> 0,
     novelty_score |-> 0, novelty_trend |-> <<>>, novelty_declining |-> FALSE,
     saturation_ratio |-> Zero, hypotheses_tested |-> 0, total_hypotheses |-> 0,
     consistency_score |-> Zero, iteration_count |-> 0, max_iterations |-> 10,
     total_cost |-> 0, cost_per_discovery |-> NoQuotient]

RECURSIVE CountTrue(_)
\* sum(1 for r in results if r.supports_hypothesis is True)
CountTrue(results) ==
    IF results = <<>> THEN 0
    ELSE (IF Head(results) = "true" THEN 1 ELSE 0) + CountTrue(Tail(results))

RECURSIVE NotNone(_)
\* [h.novelty_score for h in hypotheses if h.novelty_score is not None]
NotNone(scores) ==
    IF scores = <<>> THEN <<>>
    ELSE IF Head(scores) = NoScore THEN NotNone(Tail(scores))
         ELSE <<Head(scores)>> \o NotNone(Tail(scores))

\* calculate_novelty_decline: the current novelty (first component of the result)
CurrentNovelty(hyps) ==
    LET novelty_scores == NotNone(hyps) IN
    IF hyps = <<>> THEN 0
    ELSE IF novelty_scores = <<>> THEN 0
    ELSE novelty_scores[Len(novelty_scores)]

\* calculate_novelty_decline: is_declining (second component of the result)
IsDeclining(hyps) ==
    LET novelty_scores == NotNone(hyps)
        n == Len(novelty_scores)
    IN /\ n >= 3
       /\ novelty_scores[n - 2] >= novelty_scores[n - 1]
       /\ novelty_scores[n - 1] >= novelty_scores[n]

\* A rate that counts every result whose supports_hypothesis is not False
RateOfNotFalse(results) ==
    IF results = <<>> THEN Zero
    ELSE Quotient(Cardinality({ i \in 1..Len(results) : results[i] # "false" }), Len(results))

\* calculate_discovery_rate
calculate_discovery_rate(results) ==
    IF results = <<>> THEN Zero
    ELSE Quotient(CountTrue(results), Len(results))

\* ResearchPlan.get_testability_rate: the tested hypotheses over the pool,
\* 0.0 for an empty pool
get_testability_rate(p) ==
    IF p.hypothesis_pool = 0 THEN Zero
    ELSE Quotient(p.tested_hypotheses, p.hypothesis_pool)

\* calculate_saturation
calculate_saturation(p) == get_testability_rate(p)

\* calculate_consistency
calculate_consistency(results) ==
    IF results = <<>> THEN Zero
    ELSE Quotient(CountTrue(results), Len(results))

\* _update_metrics keeping a running count of the experiments
UpdateMetricsRunning(m, p, hyps, results) ==
    LET sig == CountTrue(results)
        cur == CurrentNovelty(hyps)
    IN [m EXCEPT !.discovery_rate = calculate_discovery_rate(results),
                 !.total_experiments = @ + Len(results),
                 !.significant_results = sig,
                 !.novelty_score = cur,
                 !.novelty_trend = Append(@, cur),
                 !.novelty_declining = IsDeclining(hyps),
                 !.saturation_ratio = calculate_saturation(p),
                 !.hypotheses_tested = p.tested_hypotheses,
                 !.total_hypotheses = p.hypothesis_pool,
                 !.consistency_score = calculate_consistency(results),
                 !.iteration_count = p.iteration_count,
                 !.max_iterations = p.max_iterations,
                 !.cost_per_discovery =
                     IF sig > 0 THEN Quotient(m.total_cost, sig) ELSE NoQuotient]

\* _update_metrics charging one unit of cost per experiment
UpdateMetricsCharging(m, p, hyps, results) ==
    LET sig == CountTrue(results)
        cur == CurrentNovelty(hyps)
    IN [m EXCEPT !.discovery_rate = calculate_discovery_rate(results),
                 !.total_experiments = Len(results),
                 !.significant_results = sig,
                 !.novelty_score = cur,
                 !.novelty_trend = Append(@, cur),
                 !.novelty_declining = IsDeclining(hyps),
                 !.saturation_ratio = calculate_saturation(p),
                 !.hypotheses_tested = p.tested_hypotheses,
                 !.total_hypotheses = p.hypothesis_pool,
                 !.consistency_score = calculate_consistency(results),
                 !.iteration_count = p.iteration_count,
                 !.max_iterations = p.max_iterations,
                 !.total_cost = Len(results),
                 !.cost_per_discovery =
                     IF sig > 0 THEN Quotient(Len(results), sig) ELSE NoQuotient]

\* _update_metrics
UpdateMetrics(m, p, hyps, results) ==
    LET sig == CountTrue(results)
        cur == CurrentNovelty(hyps)
    IN [m EXCEPT !.discovery_rate = calculate_discovery_rate(results),
                 !.total_experiments = Len(results),
                 !.significant_results = sig,
                 !.novelty_score = cur,
                 !.novelty_trend = Append(@, cur),
                 !.novelty_declining = IsDeclining(hyps),
                 !.saturation_ratio = calculate_saturation(p),
                 !.hypotheses_tested = p.tested_hypotheses,
                 !.total_hypotheses = p.hypothesis_pool,
                 !.consistency_score = calculate_consistency(results),
                 !.iteration_count = p.iteration_count,
                 !.max_iterations = p.max_iterations,
                 !.cost_per_discovery =
                     IF sig > 0 THEN Quotient(m.total_cost, sig) ELSE NoQuotient]

\* check_iteration_limit stopping only once the limit is exceeded (> for >=)
IterationLimitStrict(p) ==
    StoppingDecision(p.iteration_count > p.max_iterations, ITERATION_LIMIT, TRUE, 10)

\* check_iteration_limit
check_iteration_limit(p) ==
    StoppingDecision(p.iteration_count >= p.max_iterations, ITERATION_LIMIT, TRUE, 10)

\* check_hypothesis_exhaustion stopping when either collection is empty (or for and)
HypothesisExhaustionEither(p) ==
    StoppingDecision(p.untested = 0 \/ p.experiment_queue = 0,
                     NO_TESTABLE_HYPOTHESES, TRUE, 10)

\* check_hypothesis_exhaustion
check_hypothesis_exhaustion(p) ==
    StoppingDecision(p.untested = 0 /\ p.experiment_queue = 0,
                     NO_TESTABLE_HYPOTHESES, TRUE, 10)

\* trend[-window:]
Recent(trend, window) == SubSeq(trend, Len(trend) - window + 1, Len(trend))

\* check_novelty_decline requiring both conditions (and for or)
NoveltyDeclineBoth(trend, window, threshold) ==
    IF Len(trend) < window
    THEN StoppingDecision(FALSE, NOVELTY_DECLINE, FALSE, 0)
    ELSE LET recent == Recent(trend, window)
             all_below == \A i \in 1..Len(recent) : recent[i] < threshold
             is_declining == \A i \in 1..(Len(recent) - 1) : recent[i] >= recent[i + 1]
             should_stop == all_below /\ is_declining
         IN StoppingDecision(should_stop, NOVELTY_DECLINE, FALSE,
                             IF should_stop THEN 8 ELSE 2)

\* check_novelty_decline asking for a strictly falling window
NoveltyDeclineStrict(trend, window, threshold) ==
    IF Len(trend) < window
    THEN StoppingDecision(FALSE, NOVELTY_DECLINE, FALSE, 0)
    ELSE LET recent == Recent(trend, window)
             all_below == \A i \in 1..Len(recent) : recent[i] < threshold
             is_declining == \A i \in 1..(Len(recent) - 1) : recent[i] > recent[i + 1]
             should_stop == all_below \/ is_declining
         IN StoppingDecision(should_stop, NOVELTY_DECLINE, FALSE,
                             IF should_stop THEN 8 ELSE 2)

\* The body of check_novelty_decline, on self.metrics.novelty_trend,
\* self.novelty_decline_window and self.novelty_decline_threshold
NoveltyDecline(trend, window, threshold) ==
    IF Len(trend) < window
    THEN StoppingDecision(FALSE, NOVELTY_DECLINE, FALSE, 0)
    ELSE LET recent == Recent(trend, window)
             all_below == \A i \in 1..Len(recent) : recent[i] < threshold
             is_declining == \A i \in 1..(Len(recent) - 1) : recent[i] >= recent[i + 1]
             should_stop == all_below \/ is_declining
         IN StoppingDecision(should_stop, NOVELTY_DECLINE, FALSE,
                             IF should_stop THEN 8 ELSE 2)

\* check_novelty_decline
check_novelty_decline(m) ==
    NoveltyDecline(m.novelty_trend, novelty_decline_window, novelty_decline_threshold)

\* The threshold comparison with >= for >
ExceedsThresholdOrEqual(cpd) == cpd.num >= cost_per_discovery_threshold * cpd.den

\* cost_per_discovery > cost_per_discovery_threshold, on the exact quotient
ExceedsThreshold(cpd) == cpd.num > cost_per_discovery_threshold * cpd.den

\* check_diminishing_returns
check_diminishing_returns(m) ==
    IF m.cost_per_discovery = NoQuotient
    THEN StoppingDecision(FALSE, DIMINISHING_RETURNS, FALSE, 0)
    ELSE LET should_stop == ExceedsThreshold(m.cost_per_discovery)
         IN StoppingDecision(should_stop, DIMINISHING_RETURNS, FALSE,
                             IF should_stop THEN 7 ELSE 3)

\* Thresholds a detector can be configured with (units of 1000 dollars)
MaxThreshold == 2
Thresholds == 0..MaxThreshold

\* check_diminishing_returns on a detector configured with the given
\* cost_per_discovery_threshold
DiminishingReturnsAt(m, threshold) ==
    IF m.cost_per_discovery = NoQuotient
    THEN StoppingDecision(FALSE, DIMINISHING_RETURNS, FALSE, 0)
    ELSE LET should_stop ==
                 m.cost_per_discovery.num > threshold * m.cost_per_discovery.den
         IN StoppingDecision(should_stop, DIMINISHING_RETURNS, FALSE,
                             IF should_stop THEN 7 ELSE 3)

\* _check_criterion stopping on a name it does not know
CheckCriterionUnknownStops(criterion, m, p, mandatory) ==
    CASE criterion = ITERATION_LIMIT        -> check_iteration_limit(p)
      [] criterion = NO_TESTABLE_HYPOTHESES -> check_hypothesis_exhaustion(p)
      [] criterion = NOVELTY_DECLINE        -> check_novelty_decline(m)
      [] criterion = DIMINISHING_RETURNS    -> check_diminishing_returns(m)
      [] OTHER -> StoppingDecision(TRUE, USER_REQUESTED, mandatory, 0)

\* _check_criterion: dispatch on the criterion name
CheckCriterion(criterion, m, p, mandatory) ==
    CASE criterion = ITERATION_LIMIT        -> check_iteration_limit(p)
      [] criterion = NO_TESTABLE_HYPOTHESES -> check_hypothesis_exhaustion(p)
      [] criterion = NOVELTY_DECLINE        -> check_novelty_decline(m)
      [] criterion = DIMINISHING_RETURNS    -> check_diminishing_returns(m)
      [] OTHER -> StoppingDecision(FALSE, USER_REQUESTED, mandatory, 0)

\* A loop that keeps the decision of the last criterion that stops
LastStop(criteria, m, p, mandatory) ==
    LET firing == { i \in 1..Len(criteria) :
                      CheckCriterion(criteria[i], m, p, mandatory).should_stop }
    IN IF firing = {} THEN 0
       ELSE CHOOSE i \in firing : \A j \in firing : i >= j

\* One `for criterion in ...` loop of check_convergence: the index of the
\* criterion at which the loop returns, 0 if the loop runs to its end
FirstStop(criteria, m, p, mandatory) ==
    LET firing == { i \in 1..Len(criteria) :
                      CheckCriterion(criteria[i], m, p, mandatory).should_stop }
    IN IF firing = {} THEN 0
       ELSE CHOOSE i \in firing : \A j \in firing : i <= j

\* check_convergence running the optional loop before the mandatory one
DecideOptionalFirst(mand, opt, m, p) ==
    LET i == FirstStop(mand, m, p, TRUE)
        j == FirstStop(opt, m, p, FALSE)
    IN IF j > 0 THEN CheckCriterion(opt[j], m, p, FALSE)
       ELSE IF i > 0 THEN CheckCriterion(mand[i], m, p, TRUE)
       ELSE StoppingDecision(FALSE, USER_REQUESTED, FALSE, 10)

\* check_convergence after _update_metrics: the two loops and the fall-through
Decide(mand, opt, m, p) ==
    LET i == FirstStop(mand, m, p, TRUE)
        j == FirstStop(opt, m, p, FALSE)
    IN IF i > 0 THEN CheckCriterion(mand[i], m, p, TRUE)
       ELSE IF j > 0 THEN CheckCriterion(opt[j], m, p, FALSE)
       ELSE StoppingDecision(FALSE, USER_REQUESTED, FALSE, 10)

NoCall == [op |-> "none", hypotheses |-> <<>>, results |-> <<>>]

\* Nothing has been returned
NoDecision == StoppingDecision(FALSE, "none", FALSE, 0)

\* ConvergenceDetector(mandatory_criteria, optional_criteria, config) and the
\* caller's plan
InitConv(argsSet, planSet) ==
    /\ \E args \in argsSet :
          /\ mandatory_criteria = OrDefault(args.mandatory, DefaultMandatory)
          /\ optional_criteria = OrDefault(args.optional, DefaultOptional)
    /\ metrics = InitMetrics
    /\ plan \in planSet
    /\ call = NoCall
    /\ decision = NoDecision

\* check_convergence(research_plan, hypotheses, results)
CheckConvergence(hyps, results) ==
    /\ Len(metrics.novelty_trend) < MaxTrend
    /\ LET m == UpdateMetrics(metrics, plan, hyps, results) IN
          /\ metrics' = m
          /\ decision' = Decide(mandatory_criteria, optional_criteria, m, plan)
    /\ call' = [op |-> "check_convergence", hypotheses |-> hyps, results |-> results]
    /\ UNCHANGED <<mandatory_criteria, optional_criteria, plan>>

\* generate_convergence_report(research_plan, hypotheses, results): the
\* metrics are updated once more; the report is built from the arguments
\* and holds the metrics object as final_metrics
GenerateConvergenceReport(hyps, results) ==
    /\ Len(metrics.novelty_trend) < MaxTrend
    /\ metrics' = UpdateMetrics(metrics, plan, hyps, results)
    /\ call' = [op |-> "generate_convergence_report", hypotheses |-> hyps,
                results |-> results]
    /\ decision' = NoDecision
    /\ UNCHANGED <<mandatory_criteria, optional_criteria, plan>>

\* A direct call of check_iteration_limit(research_plan)
CheckIterationLimit ==
    /\ decision' = check_iteration_limit(plan)
    /\ call' = [op |-> "check_iteration_limit", hypotheses |-> <<>>, results |-> <<>>]
    /\ UNCHANGED <<mandatory_criteria, optional_criteria, metrics, plan>>

\* A direct call of check_hypothesis_exhaustion(research_plan, hypotheses)
CheckHypothesisExhaustion ==
    /\ decision' = check_hypothesis_exhaustion(plan)
    /\ call' = [op |-> "check_hypothesis_exhaustion", hypotheses |-> <<>>, results |-> <<>>]
    /\ UNCHANGED <<mandatory_criteria, optional_criteria, metrics, plan>>

\* A direct call of check_novelty_decline()
CheckNoveltyDecline ==
    /\ decision' = check_novelty_decline(metrics)
    /\ call' = [op |-> "check_novelty_decline", hypotheses |-> <<>>, results |-> <<>>]
    /\ UNCHANGED <<mandatory_criteria, optional_criteria, metrics, plan>>

\* A direct call of check_diminishing_returns()
CheckDiminishingReturns ==
    /\ decision' = check_diminishing_returns(metrics)
    /\ call' = [op |-> "check_diminishing_returns", hypotheses |-> <<>>, results |-> <<>>]
    /\ UNCHANGED <<mandatory_criteria, optional_criteria, metrics, plan>>

\* The caller accounts cost on the metrics object get_metrics() hands out;
\* what the last call returned no longer describes the new metrics
SetTotalCost(cost) ==
    /\ cost # metrics.total_cost
    /\ metrics' = [metrics EXCEPT !.total_cost = cost]
    /\ call' = NoCall
    /\ decision' = NoDecision
    /\ UNCHANGED <<mandatory_criteria, optional_criteria, plan>>

\* The caller's research plan moves on between two calls of the detector
SetPlan(p) ==
    /\ p # plan
    /\ plan' = p
    /\ call' = NoCall
    /\ decision' = NoDecision
    /\ UNCHANGED <<mandatory_criteria, optional_criteria, metrics>>

(***************************************************************************)
(* MemoryStore: experiment deduplication (kosmos/core/memory.py)           *)
(*                                                                         *)
(* Strings are TLA+ strings and f-strings are concatenations.  An MD5      *)
(* digest is the symbolic string "md5(<input>)": equal inputs give equal   *)
(* digests and, as for the real digest up to a negligible probability,     *)
(* different inputs give different ones.                                   *)
(***************************************************************************)

Absent == "Absent"

\* Hypotheses handed to the store: id and statement
MemHypotheses ==
    { [id |-> "h1", statement |-> "X"],
      [id |-> "h2", statement |-> "X"],
      [id |-> "h3", statement |-> "Y"] }

\* Protocols handed to the store (NoProtocol: None); methodology is Absent
\* for a protocol object without that attribute
NoProtocol == [id |-> None, experiment_type |-> None, methodology |-> None]

Protocols ==
    { NoProtocol,
      [id |-> "p1", experiment_type |-> "computational", methodology |-> "A"],
      [id |-> "p2", experiment_type |-> "data_analysis", methodology |-> Absent],
      [id |-> "p3", experiment_type |-> "data_analysis", methodology |-> ""] }

\* hashlib.md5(s.encode()).hexdigest()[:16]
Md5Hex16(s) == "md5_16(" \o s \o ")"

\* hashlib.md5(s.encode()).hexdigest()
Md5Hex(s) == "md5(" \o s \o ")"

\* protocol.methodology if hasattr(protocol, 'methodology') else ''
MethodologyOf(protocol) ==
    IF protocol.methodology = Absent THEN "" ELSE protocol.methodology

\* A hypothesis hash taken over the hypothesis id instead of the statement
HypothesisHashOfId(hypothesis) == Md5Hex16(hypothesis.id)

\* hypothesis_hash of record_experiment and is_duplicate_experiment
HypothesisHash(hypothesis) == Md5Hex16(hypothesis.statement)

\* protocol_hash of record_experiment and is_duplicate_experiment
ProtocolHash(protocol) ==
    IF protocol # NoProtocol
    THEN Md5Hex16(protocol.experiment_type \o ":" \o MethodologyOf(protocol))
    ELSE "none"

\* combined_hash of record_experiment and is_duplicate_experiment
CombinedHash(hypothesis, protocol) ==
    Md5Hex(HypothesisHash(hypothesis) \o ":" \o ProtocolHash(protocol))

\* ExperimentSignature(...) built by record_experiment
Signature(hypothesis, protocol) ==
    [hypothesis_hash |-> HypothesisHash(hypothesis),
     protocol_hash   |-> ProtocolHash(protocol),
     combined_hash   |-> CombinedHash(hypothesis, protocol),
     hypothesis_id   |-> hypothesis.id,
     protocol_id     |-> IF protocol # NoProtocol THEN protocol.id ELSE None]

\* A store that forgets every earlier signature
StoreOnly(sigs, signature) ==
    [k \in {signature.combined_hash} |-> signature]

\* self.experiment_signatures[combined_hash] = signature
Store(sigs, signature) ==
    [k \in DOMAIN sigs \cup {signature.combined_hash} |->
        IF k = signature.combined_hash THEN signature ELSE sigs[k]]

\* The count without its filter: every stored signature counts
SimilarHypAll(sigs, hypothesis_hash) == Cardinality(DOMAIN sigs)

\* sum(1 for sig in self.experiment_signatures.values()
\*     if sig.hypothesis_hash == hypothesis_hash)
SimilarHyp(sigs, hypothesis_hash) ==
    Cardinality({ k \in DOMAIN sigs : sigs[k].hypothesis_hash = hypothesis_hash })

EXACT_DUPLICATE == "Exact duplicate (same hypothesis + same protocol)"

\* f"Similar hypothesis tested {similar_hyp} time(s)"
SimilarReason(similar_hyp) ==
    "Similar hypothesis tested " \o ToString(similar_hyp) \o " time(s)"

\* is_duplicate_experiment: the returned (is_duplicate, reason)
is_duplicate_experiment(sigs, hypothesis, protocol) ==
    LET similar_hyp == SimilarHyp(sigs, HypothesisHash(hypothesis)) IN
    IF CombinedHash(hypothesis, protocol) \in DOMAIN sigs
    THEN <<TRUE, EXACT_DUPLICATE>>
    ELSE IF similar_hyp > 0 THEN <<TRUE, SimilarReason(similar_hyp)>>
    ELSE <<FALSE, None>>

\* What identifies a (statement, protocol) pair for the caller: the statement,
\* the experiment type and the methodology text
PairOf(hypothesis, protocol) ==
    <<hypothesis.statement,
      IF protocol = NoProtocol THEN <<None, None>>
      ELSE <<protocol.experiment_type, MethodologyOf(protocol)>> >>

NoDup == [called |-> FALSE, hypothesis |-> [id |-> None, statement |-> None],
          protocol |-> NoProtocol, ret |-> <<FALSE, None>>]

\* MemoryCategory, in the order of the enumeration
SUCCESS_PATTERNS == "success_patterns"
FAILURE_PATTERNS == "failure_patterns"
DEAD_ENDS        == "dead_ends"
INSIGHTS         == "insights"
GENERAL          == "general"
CategoryOrder == <<SUCCESS_PATTERNS, FAILURE_PATTERNS, DEAD_ENDS, INSIGHTS, GENERAL>>
Categories == { CategoryOrder[i] : i \in 1..Len(CategoryOrder) }

\* {category: [] for category in MemoryCategory}
NoMemories == [c \in Categories |-> <<>>]

\* No call on the memories made yet.  `returned` holds the ids of the Memory
\* objects a call returned, `removed` the Memory objects it dropped
NoQuery == [op |-> "none", raised |-> FALSE, category |-> None, returned |-> <<>>,
            removed |-> {}]

\* MemoryStore() as constructed
InitMem ==
    /\ experiment_signatures = [k \in {} |-> None]
    /\ recorded = {}
    /\ dup = NoDup
    /\ memories = NoMemories
    /\ now = 0
    /\ next_memory = 1
    /\ mq = NoQuery

\* record_experiment(hypothesis, protocol)
RecordExperiment(hypothesis, protocol) ==
    /\ experiment_signatures' = Store(experiment_signatures, Signature(hypothesis, protocol))
    /\ recorded' = recorded \cup {PairOf(hypothesis, protocol)}
    /\ dup' = NoDup
    /\ UNCHANGED storeVars

\* is_duplicate_experiment(hypothesis, protocol)
IsDuplicateExperiment(hypothesis, protocol) ==
    /\ dup' = [called |-> TRUE, hypothesis |-> hypothesis, protocol |-> protocol,
               ret |-> is_duplicate_experiment(experiment_signatures, hypothesis, protocol)]
    /\ UNCHANGED <<experiment_signatures, recorded>>
    /\ UNCHANGED storeVars

\* is_duplicate_experiment(hypothesis, protocol, similarity_threshold): the
\* body never reads similarity_threshold
IsDuplicateExperimentWith(hypothesis, protocol, similarity_threshold) ==
    IsDuplicateExperiment(hypothesis, protocol)

(***************************************************************************)
(* FeedbackLoop (kosmos/core/feedback.py)                                  *)
(*                                                                         *)
(* p-values and effect sizes are in hundredths (0.05 is 5, 0.2 is 20).     *)
(***************************************************************************)

\* self.config.get("success_learning_rate", 0.3), in tenths
success_learning_rate == 3
\* self.config.get("failure_learning_rate", 0.4), in tenths
failure_learning_rate == 4

\* Hypothesis.confidence_score is None
NoConf == -1
\* primary_p_value / primary_effect_size is None
NoValue == -1000

\* ExperimentResult objects handed to the loop.  has_metadata: the object has
\* an attribute `metadata`
Result(id, status, supports, test, p, es, md) ==
    [id |-> id, status |-> status, supports_hypothesis |-> supports,
     primary_test |-> test, primary_p_value |-> p, primary_effect_size |-> es,
     has_metadata |-> md]

Results ==
    { Result("r1", "success", "true",  "t_test", 1,  50, FALSE),
      Result("r2", "success", "true",  "t_test", 1,  80, FALSE),
      Result("r3", "success", "true",  "anova",  1,  50, FALSE),
      Result("r4", "success", "true",  "t_test", 1,  NoValue, FALSE),
      Result("r5", "success", "true",  "anova",  1,  50, TRUE),
      Result("r6", "failure", None,    "t_test", NoValue, NoValue, FALSE),
      Result("r7", "success", "false", "t_test", 20, -10, FALSE),
      Result("r8", "success", "false", "anova",  20, 50, FALSE),
      Result("r9", "success", "false", "t_test", 1,  50, FALSE),
      Result("r10", "success", None,   "t_test", 20, 10, FALSE) }

\* Failed results with every status, p-values around 0.05 and effect sizes
\* around 0.2 of both signs, either of them missing or not
FailedResults ==
    { Result("f_" \o ToString(p) \o "_" \o ToString(es), status, supports, "t_test", p, es, FALSE) :
        status \in {"success", "failure"}, supports \in {"false"},
        p \in {NoValue, 5, 6}, es \in {NoValue, -20, -19, 19, 20} }
        \cup { Result("f_none", "failure", None, "t_test", 6, 19, FALSE) }

\* The hypotheses of the caller's list, and one that is not in the list
HypIds == {"h1"}
MissingHyp == "h9"

\* The outcome of _extract_success_pattern: formatting a missing effect size
\* with :.2f raises, and so does result.model_to_dict(metadata) on a result
\* that has a metadata attribute
ExtractSuccessRaises(result) ==
    result.primary_effect_size = NoValue \/ result.has_metadata

\* _extract_success_pattern: the SuccessPattern built from the result
ExtractSuccessPattern(result) ==
    [pattern_id |-> "", test_type |-> result.primary_test, occurrences |-> 1,
     success_rate |-> [num |-> 1, den |-> 1], confidence |-> 5,
     examples |-> <<result.id>>]

\* _find_similar_success_pattern: the index of the first stored pattern with
\* the same test type, 0 if there is none
FindSimilarSuccess(patterns, pattern) ==
    LET same == { i \in 1..Len(patterns) : patterns[i].test_type = pattern.test_type }
    IN IF same = {} THEN 0 ELSE CHOOSE i \in same : \A j \in same : i <= j

Min(a, b) == IF a <= b THEN a ELSE b
Max(a, b) == IF a >= b THEN a ELSE b

\* The update of an existing pattern without the cap on the confidence
MergeSuccessUncapped(existing, result) ==
    LET n == existing.occurrences + 1 IN
    [existing EXCEPT
        !.occurrences = n,
        !.examples = Append(@, result.id),
        !.success_rate = [num |-> @.num * (n - 1) + @.den, den |-> @.den * n],
        !.confidence = @ + 1]

\* The update of an existing pattern in _analyze_success
MergeSuccess(existing, result) ==
    LET n == existing.occurrences + 1 IN
    [existing EXCEPT
        !.occurrences = n,
        !.examples = Append(@, result.id),
        !.success_rate = [num |-> @.num * (n - 1) + @.den, den |-> @.den * n],
        !.confidence = Min(10, @ + 1)]

\* f"success_{len(self.success_patterns) + 1}"
SuccessId(patterns) == "success_" \o ToString(Len(patterns) + 1)

\* _analyze_success on the pattern table: the table afterwards
AnalyzeSuccessTable(patterns, result) ==
    LET pattern == ExtractSuccessPattern(result)
        k == FindSimilarSuccess(patterns, pattern)
    IN IF k > 0
       THEN [patterns EXCEPT ![k] = MergeSuccess(patterns[k], result)]
       ELSE Append(patterns, [pattern EXCEPT !.pattern_id = SuccessId(patterns)])

\* _analyze_success: the success_pattern signal.  The payload is the pattern
\* object extracted from this result
SuccessSignal(patterns, result, sid) ==
    LET pattern == ExtractSuccessPattern(result)
        k == FindSimilarSuccess(patterns, pattern)
        pattern_id == IF k > 0 THEN patterns[k].pattern_id ELSE SuccessId(patterns)
        payload == IF k > 0 THEN pattern ELSE [pattern EXCEPT !.pattern_id = pattern_id]
    IN [id |-> sid, signal_type |-> "success_pattern", source |-> result.id,
        data |-> [pattern_id |-> pattern_id, pattern |-> payload,
                  action |-> "increase_priority"],
        confidence |-> payload.confidence]

\* _categorize_failure looking at the statistics before the status
CategorizeFailureStatisticsFirst(result) ==
    IF /\ result.primary_p_value # NoValue
       /\ result.primary_p_value > 5
       /\ result.primary_effect_size # NoValue
    THEN IF (IF result.primary_effect_size < 0 THEN -result.primary_effect_size
             ELSE result.primary_effect_size) < 20
         THEN "underpowered" ELSE "statistical"
    ELSE IF result.status = "failure" THEN "execution_error"
    ELSE "conceptual"

\* _categorize_failure
CategorizeFailure(result) ==
    IF result.status = "failure" THEN "execution_error"
    ELSE IF /\ result.primary_p_value # NoValue
            /\ result.primary_p_value > 5
            /\ result.primary_effect_size # NoValue
         THEN IF (IF result.primary_effect_size < 0 THEN -result.primary_effect_size
                  ELSE result.primary_effect_size) < 20
              THEN "underpowered" ELSE "statistical"
    ELSE "conceptual"

\* The recommended fixes of _extract_failure_pattern
Fixes(failure_type) ==
    CASE failure_type = "underpowered" ->
           <<"Increase sample size", "Use more sensitive statistical test",
             "Reduce measurement error">>
      [] failure_type = "statistical" ->
           <<"Check for outliers", "Verify assumptions", "Consider non-parametric test">>
      [] failure_type = "conceptual" ->
           <<"Refine hypothesis", "Add moderating variables", "Explore boundary conditions">>
      [] OTHER -> <<"Review experimental design">>

\* _extract_failure_pattern
ExtractFailurePattern(result, failure_type) ==
    [pattern_id |-> "", failure_type |-> failure_type, test_type |-> result.primary_test,
     recommended_fixes |-> Fixes(failure_type), occurrences |-> 1,
     examples |-> <<result.id>>]

\* A search that never finds a stored pattern
FindSimilarFailureNone(patterns, pattern) == 0

\* _find_similar_failure_pattern
FindSimilarFailure(patterns, pattern) ==
    LET same == { i \in 1..Len(patterns) : patterns[i].failure_type = pattern.failure_type }
    IN IF same = {} THEN 0 ELSE CHOOSE i \in same : \A j \in same : i <= j

\* f"failure_{len(self.failure_patterns) + 1}"
FailureId(patterns) == "failure_" \o ToString(Len(patterns) + 1)

\* _analyze_failure on the pattern table: the table afterwards
AnalyzeFailureTable(patterns, result) ==
    LET pattern == ExtractFailurePattern(result, CategorizeFailure(result))
        k == FindSimilarFailure(patterns, pattern)
    IN IF k > 0
       THEN [patterns EXCEPT ![k] = [@ EXCEPT !.occurrences = @ + 1,
                                               !.examples = Append(@, result.id)]]
       ELSE Append(patterns, [pattern EXCEPT !.pattern_id = FailureId(patterns)])

\* _analyze_failure: the failure_pattern signal
FailureSignal(patterns, result, sid) ==
    LET pattern == ExtractFailurePattern(result, CategorizeFailure(result))
        k == FindSimilarFailure(patterns, pattern)
        pattern_id == IF k > 0 THEN patterns[k].pattern_id ELSE FailureId(patterns)
        payload == IF k > 0 THEN pattern ELSE [pattern EXCEPT !.pattern_id = pattern_id]
    IN [id |-> sid, signal_type |-> "failure_pattern", source |-> result.id,
        data |-> [pattern_id |-> pattern_id, pattern |-> payload,
                  action |-> "avoid_pattern"],
        confidence |-> 8]

\* _generate_hypothesis_update_signal
HypothesisUpdateSignal(result, hypothesis_id, sid) ==
    LET action == IF result.supports_hypothesis = "true" THEN "increase_confidence"
                  ELSE IF result.supports_hypothesis = "false" THEN "decrease_confidence"
                  ELSE "no_change"
        update_value == IF result.supports_hypothesis = "true" THEN success_learning_rate
                        ELSE IF result.supports_hypothesis = "false" THEN failure_learning_rate
                        ELSE 0
    IN [id |-> sid, signal_type |-> "hypothesis_update", source |-> result.id,
        data |-> [hypothesis_id |-> hypothesis_id, action |-> action,
                  update_value |-> update_value],
        confidence |-> 10]

\* The branch process_result_feedback takes for a result
IsSuccess(result) == result.supports_hypothesis = "true" /\ result.status = "success"
IsFailure(result) ==
    ~IsSuccess(result) /\ (result.supports_hypothesis = "false" \/ result.status = "failure")

NoFb == [op |-> "none", raised |-> FALSE, hypothesis_id |-> None, action |-> None,
         update_value |-> 0, old_conf |-> NoConf, found |-> FALSE, returned |-> <<>>,
         hypotheses_updated |-> <<>>]

\* Two callers on one FeedbackLoop.  FeedbackLoop holds no lock and
\* process_result_feedback takes none, so a caller can be suspended between
\* any two statements.  pc is the statement a caller is about to execute,
\* the other fields are the local variables of _analyze_success
Threads == {1, 2}
Idle == [pc |-> "idle", result |-> None, existing |-> 0, pattern_id |-> ""]

\* FeedbackLoop() as constructed, and the caller's hypotheses
InitFb(confs) ==
    /\ hypotheses \in [HypIds -> confs]
    /\ success_patterns = <<>>
    /\ failure_patterns = <<>>
    /\ pending_signals = <<>>
    /\ applied_signals = <<>>
    /\ next_signal = 1
    /\ processed = <<>>
    /\ fb = NoFb
    /\ threads = [t \in Threads |-> Idle]

\* process_result_feedback(result, hypothesis) when the pattern extraction
\* raises: the exception leaves the method before any state is written
ProcessRaises(result, hypothesis_id) ==
    /\ IsSuccess(result) /\ ExtractSuccessRaises(result)
    /\ processed' = Append(processed, result)
    /\ fb' = [NoFb EXCEPT !.op = "process_result_feedback", !.raised = TRUE,
                         !.hypothesis_id = hypothesis_id]
    /\ UNCHANGED <<hypotheses, success_patterns, failure_patterns, pending_signals,
                   applied_signals, next_signal, threads>>

\* process_result_feedback(result, hypothesis) returning its signals
ProcessReturns(result, hypothesis_id) ==
    /\ ~(IsSuccess(result) /\ ExtractSuccessRaises(result))
    /\ LET pattern_signals ==
              IF IsSuccess(result)
              THEN <<SuccessSignal(success_patterns, result, next_signal)>>
              ELSE IF IsFailure(result)
              THEN <<FailureSignal(failure_patterns, result, next_signal)>>
              ELSE <<>>
           signals == Append(pattern_signals,
                             HypothesisUpdateSignal(result, hypothesis_id,
                                                    next_signal + Len(pattern_signals)))
       IN /\ pending_signals' = pending_signals \o signals
          /\ next_signal' = next_signal + Len(signals)
          /\ fb' = [NoFb EXCEPT !.op = "process_result_feedback",
                                !.hypothesis_id = hypothesis_id,
                                !.returned = signals]
    /\ success_patterns' = IF IsSuccess(result)
                           THEN AnalyzeSuccessTable(success_patterns, result)
                           ELSE success_patterns
    /\ failure_patterns' = IF IsFailure(result)
                           THEN AnalyzeFailureTable(failure_patterns, result)
                           ELSE failure_patterns
    /\ processed' = Append(processed, result)
    /\ UNCHANGED <<hypotheses, applied_signals, threads>>

\* process_result_feedback(result, hypothesis)
ProcessResultFeedback(result, hypothesis_id) ==
    \/ ProcessRaises(result, hypothesis_id)
    \/ ProcessReturns(result, hypothesis_id)

\* A caller enters process_result_feedback with a successful result:
\* pattern = self._extract_success_pattern(...) and
\* existing_pattern = self._find_similar_success_pattern(pattern)
ThreadFind(t, result) ==
    /\ threads[t].pc = "idle"
    /\ IsSuccess(result) /\ ~ExtractSuccessRaises(result)
    /\ threads' = [threads EXCEPT ![t] =
           [pc |-> "found", result |-> result,
            existing |-> FindSimilarSuccess(success_patterns,
                                            ExtractSuccessPattern(result)),
            pattern_id |-> ""]]
    /\ UNCHANGED <<hypotheses, success_patterns, failure_patterns, pending_signals,
                   applied_signals, next_signal, processed, fb>>

\* `if existing_pattern:` the update in place of the pattern found;
\* else pattern_id = f"success_{len(self.success_patterns) + 1}"
ThreadUpdate(t) ==
    /\ threads[t].pc = "found"
    /\ IF threads[t].existing > 0
       THEN /\ success_patterns' =
                  [success_patterns EXCEPT ![threads[t].existing] =
                      MergeSuccess(@, threads[t].result)]
            /\ threads' = [threads EXCEPT ![t].pc = "stored",
                              ![t].pattern_id =
                                  success_patterns[threads[t].existing].pattern_id]
       ELSE /\ success_patterns' = success_patterns
            /\ threads' = [threads EXCEPT ![t].pc = "named",
                              ![t].pattern_id = SuccessId(success_patterns)]
    /\ UNCHANGED <<hypotheses, failure_patterns, pending_signals, applied_signals,
                   next_signal, processed, fb>>

\* self.success_patterns[pattern_id] = pattern on a dict: a key that is
\* already there keeps its place and gets the new value
StorePattern(patterns, pattern) ==
    IF \E i \in 1..Len(patterns) : patterns[i].pattern_id = pattern.pattern_id
    THEN [i \in 1..Len(patterns) |->
             IF patterns[i].pattern_id = pattern.pattern_id THEN pattern ELSE patterns[i]]
    ELSE Append(patterns, pattern)

\* pattern.pattern_id = pattern_id; self.success_patterns[pattern_id] = pattern
ThreadStore(t) ==
    /\ threads[t].pc = "named"
    /\ success_patterns' =
          StorePattern(success_patterns,
                       [ExtractSuccessPattern(threads[t].result) EXCEPT
                           !.pattern_id = threads[t].pattern_id])
    /\ threads' = [threads EXCEPT ![t].pc = "stored"]
    /\ UNCHANGED <<hypotheses, failure_patterns, pending_signals, applied_signals,
                   next_signal, processed, fb>>

\* The rest of the call: the success_pattern signal, the hypothesis_update
\* signal, self.pending_signals.extend(signals) and the return
ThreadReturn(t, hypothesis_id) ==
    /\ threads[t].pc = "stored"
    /\ LET result == threads[t].result
           pattern == ExtractSuccessPattern(result)
           payload == IF threads[t].existing > 0 THEN pattern
                      ELSE [pattern EXCEPT !.pattern_id = threads[t].pattern_id]
           signals ==
              << [id |-> next_signal, signal_type |-> "success_pattern",
                  source |-> result.id,
                  data |-> [pattern_id |-> threads[t].pattern_id, pattern |-> payload,
                            action |-> "increase_priority"],
                  confidence |-> payload.confidence],
                 HypothesisUpdateSignal(result, hypothesis_id, next_signal + 1) >>
       IN /\ pending_signals' = pending_signals \o signals
          /\ next_signal' = next_signal + Len(signals)
          /\ processed' = Append(processed, result)
          /\ fb' = [NoFb EXCEPT !.op = "process_result_feedback",
                                !.hypothesis_id = hypothesis_id,
                                !.returned = signals]
    /\ threads' = [threads EXCEPT ![t].pc = "done"]
    /\ UNCHANGED <<hypotheses, success_patterns, failure_patterns, applied_signals>>

\* hypothesis.confidence_score or 0.5
OldConf(confidence_score) ==
    IF confidence_score = NoConf \/ confidence_score = 0 THEN 5 ELSE confidence_score

\* apply_feedback decreasing on every action that is not an increase
NewConfElseDecrease(action, confidence_score, update_value) ==
    IF action = "increase_confidence" THEN Min(10, OldConf(confidence_score) + update_value)
    ELSE Max(0, OldConf(confidence_score) - update_value)

\* The confidence apply_feedback writes for an increase / decrease action
NewConf(action, confidence_score, update_value) ==
    IF action = "increase_confidence" THEN Min(10, OldConf(confidence_score) + update_value)
    ELSE IF action = "decrease_confidence" THEN Max(0, OldConf(confidence_score) - update_value)
    ELSE confidence_score

\* self.pending_signals.remove(signal): drops the first element that is the signal
RECURSIVE RemoveFirst(_, _)
RemoveFirst(signals, sid) ==
    IF signals = <<>> THEN <<>>
    ELSE IF Head(signals).id = sid THEN Tail(signals)
    ELSE <<Head(signals)>> \o RemoveFirst(Tail(signals), sid)

\* apply_feedback(signal, hypotheses)
ApplyFeedback(signal) ==
    /\ Len(applied_signals) < MaxApply
    /\ LET hid == signal.data.hypothesis_id
           is_update == signal.signal_type = "hypothesis_update"
           found == is_update /\ hid \in DOMAIN hypotheses
           action == IF is_update THEN signal.data.action ELSE None
           update_value == IF is_update THEN signal.data.update_value ELSE 0
       IN /\ hypotheses' =
                IF found
                THEN [hypotheses EXCEPT ![hid] = NewConf(action, @, update_value)]
                ELSE hypotheses
          /\ fb' = [op |-> "apply_feedback", raised |-> FALSE,
                    hypothesis_id |-> IF is_update THEN hid ELSE None,
                    action |-> action, update_value |-> update_value,
                    old_conf |-> IF found THEN hypotheses[hid] ELSE NoConf,
                    found |-> found, returned |-> <<>>,
                    hypotheses_updated |->
                        IF found /\ action \in {"increase_confidence", "decrease_confidence"}
                        THEN <<hid>> ELSE <<>>]
    /\ applied_signals' = Append(applied_signals, signal)
    /\ pending_signals' = RemoveFirst(pending_signals, signal.id)
    /\ UNCHANGED <<success_patterns, failure_patterns, next_signal, processed, threads>>

\* The signals a caller holds and can hand to apply_feedback
HeldSignals ==
    { pending_signals[i] : i \in 1..Len(pending_signals) }
        \cup { applied_signals[i] : i \in 1..Len(applied_signals) }

(***************************************************************************)
(* MemoryStore: the categorised memories (kosmos/core/memory.py)           *)
(*                                                                         *)
(* Importances are in hundredths (0.3 is 30, 0.95 is 95), times in days.   *)
(* A Memory object is known by the order of its creation (id).  Tag lists  *)
(* are sets: the store only tests membership in them.                      *)
(***************************************************************************)

\* self.config.get("prune_after_days", 30)
prune_after_days == 30
\* self.config.get("min_importance_to_keep", 0.3), in hundredths
min_importance_to_keep == 30
\* The max_memories argument of the constructor
max_memories == 5

\* A text is the sequence of its whitespace-separated words, so that
\* text.split() is the sequence itself and an f-string with blanks between
\* its parts is a concatenation.  str.lower() on the words of the vocabulary:
Lower(word) ==
    CASE word = "Protein" -> "protein"
      [] word = "X"       -> "x"
      [] word = "BINDS"   -> "binds"
      [] word = "Y"       -> "y"
      [] word = "Z"       -> "z"
      [] word = "Success:" -> "success:"
      [] word = "Failure:" -> "failure:"
      [] word = "Dead"    -> "dead"
      [] OTHER            -> word

\* set(text.lower().split())
Keywords(text) == { Lower(text[i]) : i \in 1..Len(text) }

\* Memory(id=..., category=..., content=..., importance=..., tags=...) created
\* at time t
Memory(id, category, content, importance, tags, t) ==
    [id |-> id, category |-> category, content |-> content, importance |-> importance,
     access_count |-> 0, created_at |-> t, last_accessed |-> t, tags |-> tags]

\* Memory.access()
Access(memory, t) ==
    [memory EXCEPT !.access_count = @ + 1, !.last_accessed = t]

\* The retention test without its recency and access clauses
ShouldKeepImportant(memory, t) == memory.importance >= min_importance_to_keep

\* The retention test without its access clause
ShouldKeepUnaccessed(memory, t) ==
    \/ memory.importance >= min_importance_to_keep
    \/ memory.created_at > t - prune_after_days

\* should_keep of _prune_category, with cutoff_date = t - prune_after_days
ShouldKeep(memory, t) ==
    \/ memory.importance >= min_importance_to_keep
    \/ memory.created_at > t - prune_after_days
    \/ memory.access_count > 0

\* A pruning that filters the list of every category
PruneEveryCategory(mems, category, t) ==
    LET Keep(memory) == ShouldKeep(memory, t)
    IN [c \in Categories |-> SelectSeq(mems[c], Keep)]

\* _prune_category(category) on self.memories
PruneCategory(mems, category, t) ==
    LET Keep(memory) == ShouldKeep(memory, t)
    IN [mems EXCEPT ![category] = SelectSeq(@, Keep)]

\* add_memory appending to the general list whatever the category is
AddMemoryToGeneral(mems, memory, t) ==
    [mems EXCEPT ![GENERAL] = Append(@, memory)]

\* add_memory: append, and prune the category when it outgrows its share
AddMemoryTo(mems, memory, t) ==
    LET appended == [mems EXCEPT ![memory.category] = Append(@, memory)]
    IN IF Len(appended[memory.category]) > max_memories \div Len(CategoryOrder)
       THEN PruneCategory(appended, memory.category, t)
       ELSE appended

\* The Memory objects of one store that another no longer holds
Stored(mems) == UNION { { mems[c][i] : i \in 1..Len(mems[c]) } : c \in Categories }
Removed(before, after) == Stored(before) \ Stored(after)

\* add_memory(category, content, data, importance, tags)
AddMemory(category, content, importance, tags) ==
    /\ memories' = AddMemoryTo(memories,
                               Memory(next_memory, category, content, importance, tags,
                                      now), now)
    /\ next_memory' = next_memory + 1
    /\ mq' = [NoQuery EXCEPT !.op = "add_memory", !.category = category,
                             !.returned = <<next_memory>>,
                             !.removed = Removed(memories, memories')]
    /\ UNCHANGED <<now, experiment_signatures, recorded, dup>>

\* A wrapper whose content f-string raises: nothing is stored
WrapperRaises(op) ==
    /\ mq' = [NoQuery EXCEPT !.op = op, !.raised = TRUE]
    /\ UNCHANGED <<memories, now, next_memory, experiment_signatures, recorded, dup>>

\* A wrapper that reaches its add_memory call
WrapperAdds(op, category, content, importance, tags) ==
    /\ memories' = AddMemoryTo(memories,
                               Memory(next_memory, category, content, importance, tags,
                                      now), now)
    /\ next_memory' = next_memory + 1
    /\ mq' = [NoQuery EXCEPT !.op = op, !.category = category,
                             !.returned = <<next_memory>>,
                             !.removed = Removed(memories, memories')]
    /\ UNCHANGED <<now, experiment_signatures, recorded, dup>>

\* add_success_memory(result, hypothesis): the content formats the p-value
\* with :.4f and the effect size with :.2f, which raises on None
AddSuccessMemory(result, hypothesis) ==
    IF result.primary_p_value = NoValue \/ result.primary_effect_size = NoValue
    THEN WrapperRaises("add_success_memory")
    ELSE WrapperAdds("add_success_memory", SUCCESS_PATTERNS,
                     <<"Success:">> \o hypothesis.statement
                        \o <<"(p=" \o ToString(result.primary_p_value) \o "e-2,",
                             "effect=" \o ToString(result.primary_effect_size) \o "e-2)">>,
                     80, {"success", hypothesis.domain, result.primary_test})

\* add_failure_memory(result, hypothesis, failure_reason)
AddFailureMemory(hypothesis, failure_reason) ==
    WrapperAdds("add_failure_memory", FAILURE_PATTERNS,
                <<"Failure:">> \o hypothesis.statement \o <<"-", failure_reason>>,
                70, {"failure", hypothesis.domain, failure_reason})

\* add_dead_end_memory(hypothesis, reason)
AddDeadEndMemory(hypothesis, reason) ==
    WrapperAdds("add_dead_end_memory", DEAD_ENDS,
                <<"Dead", "end:">> \o hypothesis.statement \o <<"-", reason>>,
                90, {"dead_end", hypothesis.domain})

\* add_insight_memory(insight, source)
AddInsightMemory(insight) ==
    WrapperAdds("add_insight_memory", INSIGHTS, insight, 95, {"insight"})

\* prune_old_memories(): _prune_category on every category
PruneOldMemories ==
    /\ memories' = [c \in Categories |-> PruneCategory(memories, c, now)[c]]
    /\ mq' = [NoQuery EXCEPT !.op = "prune_old_memories",
                             !.removed = Removed(memories, memories')]
    /\ UNCHANGED <<now, next_memory, experiment_signatures, recorded, dup>>

\* Time passes between two calls; what the last call returned is history
Advance(days) ==
    /\ now + days <= MaxDays
    /\ now' = now + days
    /\ mq' = NoQuery
    /\ UNCHANGED <<memories, next_memory, experiment_signatures, recorded, dup>>

\* The filters of query_memory on one memory; an empty tag list filters nothing
Matches(memory, tags, min_importance) ==
    /\ ~(memory.importance < min_importance)
    /\ ~(tags # {} /\ memory.tags \cap tags = {})

RECURSIVE Candidates(_, _, _, _, _)
\* The search loop of query_memory over the categories from the k-th on
Candidates(mems, categories, tags, min_importance, k) ==
    IF k > Len(categories) THEN <<>>
    ELSE LET Match(memory) == Matches(memory, tags, min_importance)
         IN SelectSeq(mems[categories[k]], Match)
            \o Candidates(mems, categories, tags, min_importance, k + 1)

\* A sort key that ignores the age of the memory
SortKeyImportance(memory, t) == [num |-> memory.importance, den |-> 1]

\* The sort key: importance * (1.0 / max(1, age.days + 1)), as a quotient
SortKey(memory, t) ==
    [num |-> memory.importance, den |-> Max(1, (t - memory.created_at) + 1)]

KeyGreater(a, b) == a.num * b.den > b.num * a.den
KeyEqual(a, b) == a.num * b.den = b.num * a.den

\* results.sort(key=..., reverse=True): descending, equal keys keep their order
SortByKey(results, t) ==
    LET Rank(i) ==
            1 + Cardinality({ j \in 1..Len(results) :
                      KeyGreater(SortKey(results[j], t), SortKey(results[i], t)) })
              + Cardinality({ j \in 1..(i - 1) :
                      KeyEqual(SortKey(results[j], t), SortKey(results[i], t)) })
    IN [k \in 1..Len(results) |->
           results[CHOOSE i \in 1..Len(results) : Rank(i) = k]]

\* results[:limit] for a limit >= 0
Slice(results, limit) == SubSeq(results, 1, Min(limit, Len(results)))

\* The access loop running over every match instead of the first `limit`
AccessedAll(results, limit) == results

\* for memory in results[:limit]: memory.access()
Accessed(results, limit) == Slice(results, limit)

\* The sorted matches of query_memory
QueryResults(mems, category, tags, min_importance, t) ==
    LET categories == IF category # None THEN <<category>> ELSE CategoryOrder
    IN SortByKey(Candidates(mems, categories, tags, min_importance, 1), t)

\* query_memory with a category that is no key of self.memories: the lookup
\* self.memories[cat] raises KeyError before anything is accessed
QueryRaises(category) ==
    /\ mq' = [NoQuery EXCEPT !.op = "query_memory", !.raised = TRUE,
                             !.category = category]
    /\ UNCHANGED <<memories, now, next_memory, experiment_signatures, recorded, dup>>

\* query_memory(category, tags, min_importance, limit); a falsy category
\* (None) searches every category
QueryMemory(category, tags, min_importance, limit) ==
    IF category # None /\ category \notin Categories THEN QueryRaises(category) ELSE
    \E results \in { QueryResults(memories, category, tags, min_importance, now) } :
    \E top \in { Slice(results, limit) }, accessed \in { Accessed(results, limit) } :
    \E ids \in { { accessed[i].id : i \in 1..Len(accessed) } } :
       /\ \A i \in 1..Len(accessed) : accessed[i].access_count < MaxAccess
       /\ memories' = [c \in Categories |->
              [i \in 1..Len(memories[c]) |->
                  IF memories[c][i].id \in ids THEN Access(memories[c][i], now)
                  ELSE memories[c][i]]]
       /\ mq' = [NoQuery EXCEPT !.op = "query_memory", !.category = category,
                                !.returned = [i \in 1..Len(top) |-> top[i].id]]
       /\ UNCHANGED <<now, next_memory, experiment_signatures, recorded, dup>>

\* A similarity test that is content with two common words
IsSimilarTwo(keywords, memory) ==
    Cardinality(keywords \cap Keywords(memory.content)) >= 2

\* overlap = len(keywords & memory_keywords); overlap >= 3
IsSimilar(keywords, memory) ==
    Cardinality(keywords \cap Keywords(memory.content)) >= 3

\* The categories search_similar_hypothesis goes through, in its order
SimilarCategories == <<SUCCESS_PATTERNS, FAILURE_PATTERNS, DEAD_ENDS>>

RECURSIVE Similar(_, _, _)
\* The search loop of search_similar_hypothesis over the categories from
\* the k-th on
Similar(mems, keywords, k) ==
    IF k > Len(SimilarCategories) THEN <<>>
    ELSE LET Match(memory) == IsSimilar(keywords, memory)
         IN SelectSeq(mems[SimilarCategories[k]], Match) \o Similar(mems, keywords, k + 1)

\* similar.sort(key=lambda m: m.importance, reverse=True): descending, equal
\* importances keep their order
SortByImportance(similar) ==
    LET Rank(i) ==
            1 + Cardinality({ j \in 1..Len(similar) :
                      similar[j].importance > similar[i].importance })
              + Cardinality({ j \in 1..(i - 1) :
                      similar[j].importance = similar[i].importance })
    IN [k \in 1..Len(similar) |->
           similar[CHOOSE i \in 1..Len(similar) : Rank(i) = k]]

\* search_similar_hypothesis(hypothesis): nothing is accessed or changed
SearchSimilarHypothesis(hypothesis) ==
    \E similar \in { SortByImportance(Similar(memories, Keywords(hypothesis.statement), 1)) } :
    \E top \in { Slice(similar, 5) } :
       /\ mq' = [NoQuery EXCEPT !.op = "search_similar_hypothesis",
                                !.returned = [i \in 1..Len(top) |-> top[i].id]]
       /\ UNCHANGED <<memories, now, next_memory, experiment_signatures, recorded, dup>>

\* Inputs of the memory calls
MemoryInputs ==
    { [category |-> GENERAL, content |-> <<"note">>, importance |-> 10, tags |-> {}],
      [category |-> GENERAL, content |-> <<"note">>, importance |-> 30, tags |-> {"a"}] }
\* Results handed to add_success_memory: one complete, one without p-value
MemoryResults == { r \in Results : r.id \in {"r1", "r6"} }
\* Hypotheses handed to the wrappers: statement and domain
StoreHypotheses == { [statement |-> <<"Protein", "X", "BINDS", "Y">>, domain |-> "biology"] }
FailureReasons == {"a"}
Insights == { <<"Protein", "X", "BINDS", "Y">> }
QueryInputs ==
    { [category |-> None,    tags |-> {},    min_importance |-> 0,  limit |-> 10],
      [category |-> None,    tags |-> {},    min_importance |-> 0,  limit |-> 1],
      [category |-> None,    tags |-> {"a"}, min_importance |-> 30, limit |-> 10],
      [category |-> GENERAL, tags |-> {},    min_importance |-> 0,  limit |-> 0] }
DaySteps == {30, 40}

\* Inputs of the similarity search: a general memory with the words of the
\* stored statement, a complete result, a statement that has two words in
\* common with the searched one, and the searched hypothesis, which has three
\* in common with the stored statement once both are lower-cased
SimilarInputs ==
    { [category |-> GENERAL, content |-> <<"Protein", "X", "BINDS", "Y">>,
       importance |-> 50, tags |-> {}] }
SimilarResults == { r \in Results : r.id = "r1" }
OtherHypotheses ==
    { [statement |-> <<"Protein", "X", "inhibits", "Q">>, domain |-> "biology"] }
SearchHypotheses ==
    { [statement |-> <<"protein", "x", "binds", "Z">>, domain |-> "biology"] }

\* Memories and queries of the query study: three importances, two
\* categories, tags that match and tags that do not; queries by category
\* (one that stays empty, one that is no MemoryCategory), by tag, by
\* importance floor and with a limit below the number of matches
RankedInputs ==
    { [category |-> GENERAL,  content |-> <<"note">>, importance |-> 10, tags |-> {}],
      [category |-> GENERAL,  content |-> <<"note">>, importance |-> 30, tags |-> {"a"}],
      [category |-> INSIGHTS, content |-> <<"note">>, importance |-> 50, tags |-> {"b"}] }
UnknownCategory == "hypotheses"
RankedQueries ==
    { [category |-> None,            tags |-> {},         min_importance |-> 0,  limit |-> 10],
      [category |-> None,            tags |-> {},         min_importance |-> 0,  limit |-> 1],
      [category |-> None,            tags |-> {"a", "c"}, min_importance |-> 0,  limit |-> 10],
      [category |-> None,            tags |-> {},         min_importance |-> 30, limit |-> 10],
      [category |-> GENERAL,         tags |-> {},         min_importance |-> 0,  limit |-> 10],
      [category |-> DEAD_ENDS,       tags |-> {},         min_importance |-> 0,  limit |-> 10],
      [category |-> UnknownCategory, tags |-> {},         min_importance |-> 0,  limit |-> 10] }

(***************************************************************************)
(* Specifications.  Each studies one component; the other components stay  *)
(* as constructed.                                                         *)
(***************************************************************************)

\* A default detector that is never called
InitIdleConv ==
    InitConv({[mandatory |-> Omitted, optional |-> Omitted]}, {Plan(0, 1, 0, 1, 0)})

ConvIdle == UNCHANGED convVars
MemIdle  == UNCHANGED memVars
FbIdle   == UNCHANGED fbVars

\* The mandatory criteria and the order of evaluation: every criterion list
\* and plan, the plan staying as it is between the calls, and a small choice
\* of hypotheses, results and costs
InitMandatory == InitConv(CriteriaArgs, Plans) /\ InitMem /\ InitFb({5})

NextMandatory ==
    \/ \E hyps \in HypothesisListsFew, results \in ResultListsFew :
          CheckConvergence(hyps, results) /\ MemIdle /\ FbIdle
    \/ CheckIterationLimit /\ MemIdle /\ FbIdle
    \/ CheckHypothesisExhaustion /\ MemIdle /\ FbIdle
    \/ \E cost \in CostsFew : SetTotalCost(cost) /\ MemIdle /\ FbIdle

SpecMandatory == InitMandatory /\ [][NextMandatory]_vars

\* The optional criteria: two detectors and two plans, every hypothesis list,
\* result list and cost
InitOptional == InitConv(CriteriaArgsOpt, PlansOpt) /\ InitMem /\ InitFb({5})

NextOptional ==
    \/ \E hyps \in HypothesisLists, results \in ResultLists :
          CheckConvergence(hyps, results) /\ MemIdle /\ FbIdle
    \/ CheckNoveltyDecline /\ MemIdle /\ FbIdle
    \/ CheckDiminishingReturns /\ MemIdle /\ FbIdle
    \/ \E cost \in Costs : SetTotalCost(cost) /\ MemIdle /\ FbIdle
    \/ \E p \in PlansOpt : SetPlan(p) /\ MemIdle /\ FbIdle

SpecOptional == InitOptional /\ [][NextOptional]_vars

\* The cost: every criterion list, the detector's own operations only; no
\* caller writes metrics.total_cost
InitCost == InitConv(CriteriaArgs, PlansOpt) /\ InitMem /\ InitFb({5})

NextCost ==
    \/ \E hyps \in HypothesisListsFew, results \in ResultLists :
          CheckConvergence(hyps, results) /\ MemIdle /\ FbIdle
    \/ \E hyps \in HypothesisListsFew, results \in ResultLists :
          GenerateConvergenceReport(hyps, results) /\ MemIdle /\ FbIdle
    \/ CheckDiminishingReturns /\ MemIdle /\ FbIdle
    \/ \E p \in PlansOpt : SetPlan(p) /\ MemIdle /\ FbIdle

SpecCost == InitCost /\ [][NextCost]_vars

\* Experiment deduplication
InitMemory == InitIdleConv /\ InitMem /\ InitFb({5})

NextMemory ==
    \/ \E h \in MemHypotheses, p \in Protocols :
          RecordExperiment(h, p) /\ ConvIdle /\ FbIdle
    \/ \E h \in MemHypotheses, p \in Protocols :
          IsDuplicateExperiment(h, p) /\ ConvIdle /\ FbIdle

SpecMemory == InitMemory /\ [][NextMemory]_vars

\* Pattern learning: every result, no signal applied
InitPatterns == InitIdleConv /\ InitMem /\ InitFb({5})

NextPatterns ==
    \E result \in Results :
        /\ Len(processed) < MaxCalls
        /\ ProcessResultFeedback(result, "h1") /\ ConvIdle /\ MemIdle

SpecPatterns == InitPatterns /\ [][NextPatterns]_vars

\* Pattern merging: complete successful results of two test types, often
\* enough for a pattern's confidence to reach its cap
MergedResults == { r \in Results : r.id \in {"r1", "r2", "r3"} }

InitMerge == InitIdleConv /\ InitMem /\ InitFb({5})

NextMerge ==
    \E result \in MergedResults :
        /\ Len(processed) < MaxMerges
        /\ ProcessResultFeedback(result, "h1") /\ ConvIdle /\ MemIdle

SpecMerge == InitMerge /\ [][NextMerge]_vars

\* Failure merging: a failed result of every category and a second
\* underpowered one, in any order
MergedFailures ==
    { r \in FailedResults :
        \/ r.id = "f_none"
        \/ r.status = "success" /\ r.id \in {"f_6_19", "f_6_-19", "f_6_20", "f_5_19"} }

InitFailureMerge == InitIdleConv /\ InitMem /\ InitFb({5})

NextFailureMerge ==
    \E result \in MergedFailures :
        /\ Len(processed) < MaxFailures
        /\ ProcessResultFeedback(result, "h1") /\ ConvIdle /\ MemIdle

SpecFailureMerge == InitFailureMerge /\ [][NextFailureMerge]_vars

\* Two concurrent callers, one call each, with successful results of two
\* test types
ConcurrentResults == { r \in Results : r.id \in {"r1", "r2", "r3"} }

InitConcurrent == InitIdleConv /\ InitMem /\ InitFb({5})

NextConcurrent ==
    \/ \E t \in Threads, result \in ConcurrentResults :
          ThreadFind(t, result) /\ ConvIdle /\ MemIdle
    \/ \E t \in Threads : ThreadUpdate(t) /\ ConvIdle /\ MemIdle
    \/ \E t \in Threads : ThreadStore(t) /\ ConvIdle /\ MemIdle
    \/ \E t \in Threads : ThreadReturn(t, "h1") /\ ConvIdle /\ MemIdle

SpecConcurrent == InitConcurrent /\ [][NextConcurrent]_vars

\* Results used where the confidence updates are studied
ResultsFew == { r \in Results : r.id \in {"r1", "r4", "r9", "r10"} }

\* Confidence values the caller's hypotheses start with
StartConfs == {NoConf, 4, 5, 9}

\* Confidence updates: a few results, signals applied in any order
InitConfidence == InitIdleConv /\ InitMem /\ InitFb(StartConfs)

NextConfidence ==
    \/ \E result \in ResultsFew, hid \in HypIds \cup {MissingHyp} :
          /\ Len(processed) < MaxCalls
          /\ ProcessResultFeedback(result, hid) /\ ConvIdle /\ MemIdle
    \/ \E signal \in HeldSignals : ApplyFeedback(signal) /\ ConvIdle /\ MemIdle

SpecConfidence == InitConfidence /\ [][NextConfidence]_vars

\* Failure categorization: failed results of every kind
InitFailures == InitIdleConv /\ InitMem /\ InitFb({5})

NextFailures ==
    \E result \in FailedResults :
        /\ Len(processed) < MaxCalls
        /\ ProcessResultFeedback(result, "h1") /\ ConvIdle /\ MemIdle

SpecFailures == InitFailures /\ [][NextFailures]_vars

\* The categorised memories: adding, querying, pruning, time passing
InitStore == InitIdleConv /\ InitMem /\ InitFb({5})

NextStore ==
    \/ \E m \in MemoryInputs :
          /\ next_memory <= MaxMemories
          /\ AddMemory(m.category, m.content, m.importance, m.tags) /\ ConvIdle /\ FbIdle
    \/ \E result \in MemoryResults, hypothesis \in StoreHypotheses :
          /\ next_memory <= MaxMemories
          /\ AddSuccessMemory(result, hypothesis) /\ ConvIdle /\ FbIdle
    \/ \E hypothesis \in StoreHypotheses, failure_reason \in FailureReasons :
          /\ next_memory <= MaxMemories
          /\ AddFailureMemory(hypothesis, failure_reason) /\ ConvIdle /\ FbIdle
    \/ \E hypothesis \in StoreHypotheses, reason \in FailureReasons :
          /\ next_memory <= MaxMemories
          /\ AddDeadEndMemory(hypothesis, reason) /\ ConvIdle /\ FbIdle
    \/ \E insight \in Insights :
          /\ next_memory <= MaxMemories
          /\ AddInsightMemory(insight) /\ ConvIdle /\ FbIdle
    \/ \E q \in QueryInputs :
          QueryMemory(q.category, q.tags, q.min_importance, q.limit) /\ ConvIdle /\ FbIdle
    \/ PruneOldMemories /\ ConvIdle /\ FbIdle
    \/ \E days \in DaySteps : Advance(days) /\ ConvIdle /\ FbIdle

SpecStore == InitStore /\ [][NextStore]_vars

\* The queries: memories of several importances and ages, queried every way
InitQuery == InitIdleConv /\ InitMem /\ InitFb({5})

NextQuery ==
    \/ \E m \in RankedInputs :
          /\ next_memory <= MaxMemories
          /\ AddMemory(m.category, m.content, m.importance, m.tags) /\ ConvIdle /\ FbIdle
    \/ \E q \in RankedQueries :
          QueryMemory(q.category, q.tags, q.min_importance, q.limit) /\ ConvIdle /\ FbIdle
    \/ \E days \in DaySteps : Advance(days) /\ ConvIdle /\ FbIdle

SpecQuery == InitQuery /\ [][NextQuery]_vars

\* Category-local pruning: unimportant and important memories of two
\* categories added while time passes, next to a recorded experiment
LocalInputs ==
    { [category |-> GENERAL,  content |-> <<"note">>, importance |-> 10, tags |-> {}],
      [category |-> GENERAL,  content |-> <<"note">>, importance |-> 30, tags |-> {}],
      [category |-> INSIGHTS, content |-> <<"note">>, importance |-> 10, tags |-> {}] }

InitLocal == InitIdleConv /\ InitMem /\ InitFb({5})

NextLocal ==
    \/ \E m \in LocalInputs :
          /\ next_memory <= MaxLocal
          /\ AddMemory(m.category, m.content, m.importance, m.tags) /\ ConvIdle /\ FbIdle
    \/ \E days \in DaySteps : Advance(days) /\ ConvIdle /\ FbIdle
    \/ \E h \in {hyp \in MemHypotheses : hyp.id = "h1"} :
          RecordExperiment(h, NoProtocol) /\ ConvIdle /\ FbIdle

SpecLocal == InitLocal /\ [][NextLocal]_vars

\* The similarity search: memories of every category about one statement and
\* about a statement with fewer words in common, searched time and again.
\* The insight and general memories are among the first MaxMemories of a
\* session
InitSimilar == InitIdleConv /\ InitMem /\ InitFb({5})

NextSimilar ==
    \/ \E m \in SimilarInputs :
          /\ next_memory <= MaxMemories
          /\ AddMemory(m.category, m.content, m.importance, m.tags) /\ ConvIdle /\ FbIdle
    \/ \E result \in SimilarResults, hypothesis \in StoreHypotheses :
          /\ next_memory <= MaxSimilar
          /\ AddSuccessMemory(result, hypothesis) /\ ConvIdle /\ FbIdle
    \/ \E hypothesis \in StoreHypotheses \cup OtherHypotheses, failure_reason \in FailureReasons :
          /\ next_memory <= MaxSimilar
          /\ AddFailureMemory(hypothesis, failure_reason) /\ ConvIdle /\ FbIdle
    \/ \E hypothesis \in StoreHypotheses, reason \in FailureReasons :
          /\ next_memory <= MaxSimilar
          /\ AddDeadEndMemory(hypothesis, reason) /\ ConvIdle /\ FbIdle
    \/ \E insight \in Insights :
          /\ next_memory <= MaxMemories
          /\ AddInsightMemory(insight) /\ ConvIdle /\ FbIdle
    \/ \E hypothesis \in SearchHypotheses :
          SearchSimilarHypothesis(hypothesis) /\ ConvIdle /\ FbIdle

SpecSimilar == InitSimilar /\ [][NextSimilar]_vars

\* Retention: unimportant memories of two categories, one of them about
\* the statement that is searched for, are added, queried, searched and
\* pruned while time passes
MaxRetain == 3
RetainInputs ==
    { [category |-> GENERAL, content |-> <<"note">>, importance |-> 10, tags |-> {}],
      [category |-> FAILURE_PATTERNS, content |-> <<"Protein", "X", "BINDS", "Y">>,
       importance |-> 10, tags |-> {"a"}] }
RetainQueries ==
    { [category |-> None,    tags |-> {},    min_importance |-> 0, limit |-> 1],
      [category |-> GENERAL, tags |-> {},    min_importance |-> 0, limit |-> 10],
      [category |-> None,    tags |-> {"a"}, min_importance |-> 0, limit |-> 10] }

InitRetain == InitIdleConv /\ InitMem /\ InitFb({5})

NextRetain ==
    \/ \E m \in RetainInputs :
          /\ next_memory <= MaxRetain
          /\ AddMemory(m.category, m.content, m.importance, m.tags) /\ ConvIdle /\ FbIdle
    \/ \E q \in RetainQueries :
          QueryMemory(q.category, q.tags, q.min_importance, q.limit) /\ ConvIdle /\ FbIdle
    \/ \E hypothesis \in SearchHypotheses :
          SearchSimilarHypothesis(hypothesis) /\ ConvIdle /\ FbIdle
    \/ PruneOldMemories /\ ConvIdle /\ FbIdle
    \/ \E days \in DaySteps : Advance(days) /\ ConvIdle /\ FbIdle

SpecRetain == InitRetain /\ [][NextRetain]_vars

\* Duplicate checks with every threshold (tenths), between recordings and
\* additions of memories
SimilarityThresholds == {5, 9, 10}
DupProtocols == { p \in Protocols : p.id \in {None, "p1"} }

InitDup == InitIdleConv /\ InitMem /\ InitFb({5})

NextDup ==
    \/ \E h \in MemHypotheses, p \in DupProtocols :
          RecordExperiment(h, p) /\ ConvIdle /\ FbIdle
    \/ \E h \in MemHypotheses, p \in DupProtocols, th \in SimilarityThresholds :
          IsDuplicateExperimentWith(h, p, th) /\ ConvIdle /\ FbIdle
    \/ \E m \in MemoryInputs :
          /\ next_memory <= MaxMemories
          /\ AddMemory(m.category, m.content, m.importance, m.tags) /\ ConvIdle /\ FbIdle

SpecDup == InitDup /\ [][NextDup]_vars

\* The metrics: a default detector, plans with every small pool, checks and
\* reports in any order
InitMetricsSpec ==
    InitConv({[mandatory |-> Omitted, optional |-> Omitted]}, PlansMetrics)
        /\ InitMem /\ InitFb({5})

NextMetrics ==
    \/ \E hyps \in HypothesisListsMetrics, results \in ResultLists :
          CheckConvergence(hyps, results) /\ MemIdle /\ FbIdle
    \/ \E hyps \in HypothesisListsMetrics, results \in ResultLists :
          GenerateConvergenceReport(hyps, results) /\ MemIdle /\ FbIdle
    \/ \E cost \in CostsFew : SetTotalCost(cost) /\ MemIdle /\ FbIdle
    \/ \E p \in PlansMetrics : SetPlan(p) /\ MemIdle /\ FbIdle

SpecMetrics == InitMetricsSpec /\ [][NextMetrics]_vars

\* Hypotheses without novelty scores: every call of the detector is made
\* with a hypothesis list that holds no score
InitNoScore == InitConv(CriteriaArgsOpt, PlansOpt) /\ InitMem /\ InitFb({5})

NextNoScore ==
    \/ \E hyps \in HypothesisListsNoScore, results \in ResultLists :
          CheckConvergence(hyps, results) /\ MemIdle /\ FbIdle
    \/ CheckNoveltyDecline /\ MemIdle /\ FbIdle
    \/ \E cost \in CostsFew : SetTotalCost(cost) /\ MemIdle /\ FbIdle

SpecNoScore == InitNoScore /\ [][NextNoScore]_vars

(***************************************************************************)
(* Properties of the ConvergenceDetector                                   *)
(***************************************************************************)

\* The criteria as the specification states them, on the current plan and metrics
IterationLimitReached == plan.iteration_count >= plan.max_iterations
NothingTestable == plan.untested = 0 /\ plan.experiment_queue = 0

\* The window of the most recent observations, when the trend fills one
HasWindow == Len(metrics.novelty_trend) >= novelty_decline_window
WindowIndices ==
    (Len(metrics.novelty_trend) - novelty_decline_window + 1)..Len(metrics.novelty_trend)
AllBelowThreshold ==
    \A i \in WindowIndices : metrics.novelty_trend[i] < novelty_decline_threshold
NonIncreasing ==
    \A i \in WindowIndices, j \in WindowIndices :
        i < j => metrics.novelty_trend[i] >= metrics.novelty_trend[j]
NoveltyDeclined == HasWindow /\ (AllBelowThreshold \/ NonIncreasing)

\* Significant results of the result list given to the last check_convergence
SignificantCount == Cardinality({ i \in 1..Len(call.results) : call.results[i] = "true" })
CostTooHigh ==
    /\ SignificantCount > 0
    /\ metrics.total_cost > cost_per_discovery_threshold * SignificantCount

\* Whether a named criterion is met; an unknown name is never met
Met(criterion) ==
    \/ criterion = ITERATION_LIMIT /\ IterationLimitReached
    \/ criterion = NO_TESTABLE_HYPOTHESES /\ NothingTestable
    \/ criterion = NOVELTY_DECLINE /\ NoveltyDeclined
    \/ criterion = DIMINISHING_RETURNS /\ CostTooHigh

MandatoryKinds == {ITERATION_LIMIT, NO_TESTABLE_HYPOTHESES}
OptionalKinds  == {NOVELTY_DECLINE, DIMINISHING_RETURNS}

Names(criteria) == { criteria[i] : i \in 1..Len(criteria) }

DefaultLists ==
    mandatory_criteria = DefaultMandatory /\ optional_criteria = DefaultOptional

\* C1: on a detector with the default lists, a plan with iteration_count >=
\* max_iterations makes check_convergence return should_stop, iteration_limit,
\* mandatory, confidence 1.0, whatever the hypotheses, results and earlier
\* calls were; check_iteration_limit does not stop while iteration_count <
\* max_iterations.
C1_IterationLimit ==
    /\ (call.op = "check_convergence" /\ DefaultLists /\ IterationLimitReached)
          => decision = StoppingDecision(TRUE, ITERATION_LIMIT, TRUE, 10)
    /\ (call.op = "check_iteration_limit" /\ ~IterationLimitReached)
          => ~decision.should_stop

\* C1 witness: check_convergence stopped a default detector at the limit in a
\* call where no_testable_hypotheses and novelty_decline were met as well
C1_Witness ==
    /\ call.op = "check_convergence" /\ DefaultLists
    /\ plan.iteration_count = plan.max_iterations
    /\ NothingTestable /\ NoveltyDeclined
    /\ decision.reason = ITERATION_LIMIT /\ decision.should_stop

\* C2 as stated: with no untested hypothesis and no queued experiment,
\* check_hypothesis_exhaustion fires (mandatory, confidence 1.0) and
\* check_convergence returns a mandatory stop; the criterion does not fire
\* when the untested set or the queue is non-empty.
C2_AsStated ==
    /\ (call.op = "check_hypothesis_exhaustion" /\ NothingTestable)
          => decision = StoppingDecision(TRUE, NO_TESTABLE_HYPOTHESES, TRUE, 10)
    /\ (call.op = "check_convergence" /\ NothingTestable)
          => (decision.should_stop /\ decision.is_mandatory)
    /\ (call.op = "check_hypothesis_exhaustion" /\ ~NothingTestable)
          => ~decision.should_stop

\* C2 amended: as C2, where check_convergence returns a mandatory stop on
\* every detector whose mandatory list names no_testable_hypotheses and
\* names neither novelty_decline nor diminishing_returns.
C2_Exhaustion ==
    /\ (call.op = "check_hypothesis_exhaustion" /\ NothingTestable)
          => decision = StoppingDecision(TRUE, NO_TESTABLE_HYPOTHESES, TRUE, 10)
    /\ ( /\ call.op = "check_convergence" /\ NothingTestable
         /\ NO_TESTABLE_HYPOTHESES \in Names(mandatory_criteria)
         /\ Names(mandatory_criteria) \cap OptionalKinds = {} )
          => (decision.should_stop /\ decision.is_mandatory)
    /\ (call.op = "check_hypothesis_exhaustion" /\ ~NothingTestable)
          => ~decision.should_stop

\* C2 witness: check_convergence stopped for no_testable_hypotheses, below
\* the iteration limit, in a call where novelty_decline was met
C2_Witness ==
    /\ call.op = "check_convergence" /\ NothingTestable /\ ~IterationLimitReached
    /\ NoveltyDeclined
    /\ decision = StoppingDecision(TRUE, NO_TESTABLE_HYPOTHESES, TRUE, 10)

ScanOrder == mandatory_criteria \o optional_criteria
MetIndices == { i \in 1..Len(ScanOrder) : Met(ScanOrder[i]) }
FirstMet == CHOOSE i \in MetIndices : \A j \in MetIndices : i <= j

\* The decision a criterion returns when it stops
StopOf(criterion) ==
    StoppingDecision(TRUE, criterion, criterion \in MandatoryKinds,
                     CASE criterion \in MandatoryKinds -> 10
                       [] criterion = NOVELTY_DECLINE -> 8
                       [] OTHER -> 7)

\* C4: check_convergence returns the decision of the first criterion that is
\* met, scanning the mandatory list and then the optional list in list
\* order, and returns should_stop = false iff no configured criterion is met.
C4_FirstInOrder ==
    call.op = "check_convergence" =>
        /\ decision.should_stop <=> MetIndices # {}
        /\ MetIndices # {} => decision = StopOf(ScanOrder[FirstMet])

\* C4 witness: two criteria of one list were met and the earlier-listed one,
\* here no_testable_hypotheses ahead of iteration_limit, gave the reason
C4_Witness ==
    /\ call.op = "check_convergence"
    /\ mandatory_criteria = <<NO_TESTABLE_HYPOTHESES, ITERATION_LIMIT>>
    /\ IterationLimitReached /\ NothingTestable
    /\ decision.reason = NO_TESTABLE_HYPOTHESES

\* The decision C5 describes for the current trend
NoveltyDecisionOf ==
    IF ~HasWindow THEN StoppingDecision(FALSE, NOVELTY_DECLINE, FALSE, 0)
    ELSE StoppingDecision(NoveltyDeclined, NOVELTY_DECLINE, FALSE,
                          IF NoveltyDeclined THEN 8 ELSE 2)

\* C5: with window W and threshold T, novelty_decline returns should_stop =
\* false with confidence 0.0 on a trend of fewer than W observations;
\* otherwise it stops iff the W most recent observations are all below T or
\* are non-increasing, with confidence 0.8 when stopping and 0.2 otherwise;
\* the decision is never mandatory.  With W = 5 and T = 0.3 the trend
\* [0.8, 0.6, 0.4, 0.3, 0.2] fires by decline and [0.1]*5 by threshold.
C5_NoveltyDecline ==
    /\ call.op = "check_novelty_decline" => decision = NoveltyDecisionOf
    /\ (call.op = "check_convergence" /\ decision.reason = NOVELTY_DECLINE)
          => (decision = NoveltyDecisionOf /\ NoveltyDeclined)
    /\ NoveltyDecline(<<8, 6, 4, 3, 2>>, 5, 3) = StoppingDecision(TRUE, NOVELTY_DECLINE, FALSE, 8)
    /\ NoveltyDecline(<<1, 1, 1, 1, 1>>, 5, 3) = StoppingDecision(TRUE, NOVELTY_DECLINE, FALSE, 8)
    /\ NoveltyDecline(<<1, 2, 1, 5, 1>>, 5, 3) = StoppingDecision(FALSE, NOVELTY_DECLINE, FALSE, 2)
    /\ NoveltyDecline(<<1, 1, 1, 1>>, 5, 3) = StoppingDecision(FALSE, NOVELTY_DECLINE, FALSE, 0)

\* C5 witness: check_novelty_decline stopped on a window that is
\* non-increasing while one of its observations is not below the threshold
C5_Witness ==
    /\ call.op = "check_novelty_decline"
    /\ HasWindow /\ NonIncreasing /\ ~AllBelowThreshold
    /\ decision = StoppingDecision(TRUE, NOVELTY_DECLINE, FALSE, 8)

\* The decision C6 describes for a cost-per-discovery quotient
CostDecisionOf(cpd) ==
    IF cpd.den = 0 THEN StoppingDecision(FALSE, DIMINISHING_RETURNS, FALSE, 0)
    ELSE LET over == cpd.num > cost_per_discovery_threshold * cpd.den
         IN StoppingDecision(over, DIMINISHING_RETURNS, FALSE, IF over THEN 7 ELSE 3)

\* C6: diminishing_returns stops iff cost-per-discovery, total_cost divided
\* by the number of results with supports_hypothesis == true, is strictly
\* above the threshold (confidence 0.7 when stopping, 0.3 otherwise); with
\* no significant result cost-per-discovery is undefined and the criterion
\* returns should_stop = false with confidence 0.0.
C6_DiminishingReturns ==
    /\ call.op = "check_diminishing_returns"
          => decision = CostDecisionOf(metrics.cost_per_discovery)
    /\ call.op = "check_convergence"
          => /\ metrics.cost_per_discovery =
                    (IF SignificantCount = 0 THEN NoQuotient
                     ELSE Quotient(metrics.total_cost, SignificantCount))
             /\ check_diminishing_returns(metrics) =
                    CostDecisionOf([num |-> metrics.total_cost, den |-> SignificantCount])
             /\ decision.reason = DIMINISHING_RETURNS
                    => decision = StoppingDecision(TRUE, DIMINISHING_RETURNS, FALSE, 7)

\* C6 witness: check_diminishing_returns stopped on a cost of 3 spread over
\* two significant results, 1.5 a discovery against a threshold of 1
C6_Witness ==
    /\ call.op = "check_diminishing_returns"
    /\ metrics.cost_per_discovery = Quotient(3, 2)
    /\ decision = StoppingDecision(TRUE, DIMINISHING_RETURNS, FALSE, 7)

(***************************************************************************)
(* Properties of the MemoryStore                                           *)
(***************************************************************************)

\* Whether record_experiment was called for the statement of `hypothesis`
\* with the experiment type and methodology of `protocol`
WasRecorded(hypothesis, protocol) == PairOf(hypothesis, protocol) \in recorded

\* Stored signatures carrying the hash of the statement of `hypothesis`
SameStatementCount(hypothesis) ==
    Cardinality({ k \in DOMAIN experiment_signatures :
        experiment_signatures[k].hypothesis_hash = Md5Hex16(hypothesis.statement) })

IsExactDuplicate(ret) ==
    ret[1] /\ ret[2] = "Exact duplicate" \o " (same hypothesis + same protocol)"

\* C7: once record_experiment(h, p) was called, is_duplicate_experiment(h2, p2)
\* returns (true, a reason beginning "Exact duplicate") for every h2 with the
\* statement of h and every p2 with the experiment type and methodology of p,
\* no protocol included, whatever else was recorded in between.
C7_ExactDuplicate ==
    /\ \A h \in MemHypotheses, p \in Protocols :
          WasRecorded(h, p)
            => IsExactDuplicate(is_duplicate_experiment(experiment_signatures, h, p))
    /\ (dup.called /\ WasRecorded(dup.hypothesis, dup.protocol))
          => IsExactDuplicate(dup.ret)

\* C7 witness: an exact duplicate reported for hypothesis h2 and a protocol
\* with an empty methodology, where the signature was stored for h1 and a
\* protocol without methodology, other experiments being recorded as well
C7_Witness ==
    /\ dup.called /\ dup.hypothesis.id = "h2" /\ dup.protocol.id = "p3"
    /\ IsExactDuplicate(dup.ret)
    /\ \E k \in DOMAIN experiment_signatures :
          /\ experiment_signatures[k].hypothesis_id = "h1"
          /\ experiment_signatures[k].protocol_id = "p2"
          /\ experiment_signatures[k].combined_hash = CombinedHash(dup.hypothesis, dup.protocol)
    /\ Cardinality(DOMAIN experiment_signatures) >= 3

\* The second tier with the reason text as `text` N " time(s)"
SecondTier(text) ==
    \A h \in MemHypotheses, p \in Protocols :
        ~WasRecorded(h, p) =>
            LET n == SameStatementCount(h)
                ret == is_duplicate_experiment(experiment_signatures, h, p)
            IN /\ n > 0 => ret = <<TRUE, text \o ToString(n) \o " time(s)">>
               /\ n = 0 => ret = <<FALSE, None>>
               /\ n = Cardinality({ pair \in recorded : pair[1] = h.statement })

\* C8 as stated: when the (statement, protocol) pair was not recorded, the
\* check returns (true, "similar hypothesis tested N time(s)") iff a stored
\* signature has the hash of the statement, N being the number of such
\* signatures, and (false, None) iff none has.
C8_AsStated == SecondTier("similar hypothesis tested ")

\* C8 amended: the same with the reason "Similar hypothesis tested N time(s)",
\* capitalised as is_duplicate_experiment writes it.
C8_SimilarHypothesis == SecondTier("Similar hypothesis tested ")

\* C8 witness: statement X recorded under two protocols and checked with a
\* third one, a signature of another statement being stored too
C8_Witness ==
    /\ dup.called /\ ~WasRecorded(dup.hypothesis, dup.protocol)
    /\ dup.hypothesis.statement = "X"
    /\ dup.ret = <<TRUE, "Similar hypothesis tested 2 time(s)">>
    /\ Cardinality(DOMAIN experiment_signatures) = 3

(***************************************************************************)
(* Properties of the FeedbackLoop                                          *)
(***************************************************************************)

\* C9: after any sequence of apply_feedback calls every confidence_score
\* that is set lies in [0, 1]; an increase_confidence signal with update
\* value u applied to a hypothesis of confidence c leaves min(1.0, c + u)
\* and a decrease_confidence signal leaves max(0.0, c - u).
C9_AsStated ==
    /\ \A h \in DOMAIN hypotheses : hypotheses[h] = NoConf \/ hypotheses[h] \in 0..10
    /\ (fb.op = "apply_feedback" /\ fb.found /\ fb.old_conf # NoConf) =>
          /\ fb.action = "increase_confidence" =>
                hypotheses[fb.hypothesis_id] = Min(10, fb.old_conf + fb.update_value)
          /\ fb.action = "decrease_confidence" =>
                hypotheses[fb.hypothesis_id] = Max(0, fb.old_conf - fb.update_value)

RECURSIVE SuccessIdsOf(_, _)
\* The ids of the successful results of one primary test type among the
\* processed results, in processing order
SuccessIdsOf(results, test_type) ==
    IF results = <<>> THEN <<>>
    ELSE (IF IsSuccess(Head(results)) /\ Head(results).primary_test = test_type
          THEN <<Head(results).id>> ELSE <<>>)
         \o SuccessIdsOf(Tail(results), test_type)

TestTypes == { r.primary_test : r \in Results }

\* C10: after n >= 1 successful results of one primary test type were
\* processed, interleaved with any other results, the success-pattern table
\* holds exactly one pattern of that test type, with occurrences = n and
\* with the ids of those n results as its examples.
C10_AsStated ==
    \A t \in TestTypes :
        LET ids == SuccessIdsOf(processed, t)
            of_type == { i \in 1..Len(success_patterns) : success_patterns[i].test_type = t }
        IN Len(ids) >= 1 =>
              /\ Cardinality(of_type) = 1
              /\ \A i \in of_type :
                    /\ success_patterns[i].occurrences = Len(ids)
                    /\ success_patterns[i].examples = ids

\* The hypothesis_update signals among the signals the last call returned
ReturnedUpdates ==
    { i \in 1..Len(fb.returned) : fb.returned[i].signal_type = "hypothesis_update" }

\* The result the last call of process_result_feedback was given
LastResult == processed[Len(processed)]

\* C11: every call of process_result_feedback returns a list with exactly
\* one hypothesis_update signal, for the given hypothesis id, with
\* increase_confidence and the success learning rate when supports_hypothesis
\* is true, decrease_confidence and the failure learning rate when it is
\* false, and no_change with magnitude 0.0 when it is unknown.
C11_AsStated ==
    fb.op = "process_result_feedback" =>
        /\ Cardinality(ReturnedUpdates) = 1
        /\ \A i \in ReturnedUpdates :
              /\ fb.returned[i].data.hypothesis_id = fb.hypothesis_id
              /\ LastResult.supports_hypothesis = "true" =>
                    /\ fb.returned[i].data.action = "increase_confidence"
                    /\ fb.returned[i].data.update_value = 3
              /\ LastResult.supports_hypothesis = "false" =>
                    /\ fb.returned[i].data.action = "decrease_confidence"
                    /\ fb.returned[i].data.update_value = 4
              /\ LastResult.supports_hypothesis = None =>
                    /\ fb.returned[i].data.action = "no_change"
                    /\ fb.returned[i].data.update_value = 0

\* What holds of the calls that return: the same signal, raised calls aside
C11_WhenReturning == fb.raised \/ C11_AsStated

\* How many places of a queue hold the signal numbered sid
Occurrences(signals, sid) == Cardinality({ i \in 1..Len(signals) : signals[i].id = sid })

\* A step of process_result_feedback, which `processed` records
Processing == Len(processed') = Len(processed) + 1

\* The signals of one type among the signals the call of this step returned
ReturnedOfType(type) ==
    { i \in 1..Len(fb'.returned) : fb'.returned[i].signal_type = type }

C21_Step ==
    Processing =>
        LET result == processed'[Len(processed')]
            success == result.status = "success" /\ result.supports_hypothesis = "true"
            failure == result.status = "failure" \/ result.supports_hypothesis = "false"
        IN /\ success =>
                /\ Cardinality(ReturnedOfType("success_pattern")) = 1
                /\ ReturnedOfType("failure_pattern") = {}
                /\ \A i \in ReturnedOfType("success_pattern") :
                      fb'.returned[i].data.action = "increase_priority"
           /\ (~success /\ failure) =>
                /\ Cardinality(ReturnedOfType("failure_pattern")) = 1
                /\ ReturnedOfType("success_pattern") = {}
                /\ \A i \in ReturnedOfType("failure_pattern") :
                      fb'.returned[i].data.action = "avoid_pattern"
           /\ (~success /\ ~failure) =>
                /\ ReturnedOfType("success_pattern") = {}
                /\ ReturnedOfType("failure_pattern") = {}
                /\ success_patterns' = success_patterns
                /\ failure_patterns' = failure_patterns

\* C21: process_result_feedback emits exactly one success_pattern signal
\* (increase_priority) and no failure_pattern signal for a result with
\* status success that supports the hypothesis, exactly one failure_pattern
\* signal (avoid_pattern) and no success_pattern signal for a result with
\* status failure or that does not support it, and no pattern signal, with
\* both pattern tables unchanged, for any other result.
C21_AsStated == [][C21_Step]_vars

\* C22: a call of process_result_feedback does not propagate a fault of the
\* pattern extraction: it returns, and the signals it returns and enqueues
\* hold the hypothesis_update signal of the result.
C22_AsStated ==
    fb.op = "process_result_feedback" =>
        /\ ~fb.raised
        /\ \E i \in 1..Len(fb.returned) :
              /\ fb.returned[i].signal_type = "hypothesis_update"
              /\ fb.returned[i].data.hypothesis_id = fb.hypothesis_id
              /\ \E j \in 1..Len(pending_signals) : pending_signals[j] = fb.returned[i]

\* A step of apply_feedback, which appends the signal to applied_signals
Applying == Len(applied_signals') = Len(applied_signals) + 1

\* The signal the apply_feedback of this step was given
AppliedNow == applied_signals'[Len(applied_signals')]

C23_Step ==
    (Applying /\ \E i \in 1..Len(applied_signals) : applied_signals[i].id = AppliedNow.id)
        => /\ hypotheses' = hypotheses
           /\ pending_signals' = pending_signals
           /\ applied_signals' = applied_signals

\* C23: applying a signal that has already been applied leaves every
\* hypothesis's confidence, the pending queue and the applied queue as they
\* were after the first application.
C23_AsStated == [][C23_Step]_vars

\* The hypothesis_update signal names no hypothesis of the list, or its
\* action is no_change
NothingToUpdate(signal) ==
    /\ signal.signal_type = "hypothesis_update"
    /\ \/ signal.data.hypothesis_id \notin DOMAIN hypotheses
       \/ signal.data.action = "no_change"

C24_Step ==
    (Applying /\ NothingToUpdate(AppliedNow)) =>
        /\ fb'.op = "apply_feedback" /\ ~fb'.raised
        /\ hypotheses' = hypotheses
        /\ fb'.hypotheses_updated = <<>>

\* C24: apply_feedback with a hypothesis_update signal whose hypothesis_id
\* matches no hypothesis of the list raises nothing, changes no confidence
\* and returns an empty hypotheses_updated list, and so does a signal whose
\* action is no_change.
C24_NothingToUpdate == [][C24_Step]_vars

\* C24 witness: an increase_confidence signal for a hypothesis that is not
\* in the list was applied after a no_change signal for one that is, whose
\* confidence is still not set
C24_Witness ==
    /\ fb.op = "apply_feedback" /\ fb.hypothesis_id = MissingHyp
    /\ fb.action = "increase_confidence" /\ ~fb.found /\ fb.hypotheses_updated = <<>>
    /\ \E i \in 1..Len(applied_signals) :
          /\ applied_signals[i].signal_type = "hypothesis_update"
          /\ applied_signals[i].data.action = "no_change"
          /\ applied_signals[i].data.hypothesis_id = "h1"
    /\ hypotheses["h1"] = NoConf

\* |x|
Abs(x) == IF x < 0 THEN -x ELSE x

\* The category C25 gives a failed result
CategoryOf(result) ==
    LET p == result.primary_p_value
        es == result.primary_effect_size
    IN IF result.status = "failure" THEN "execution_error"
       ELSE IF p # NoValue /\ es # NoValue /\ p > 5 /\ Abs(es) < 20 THEN "underpowered"
       ELSE IF p # NoValue /\ es # NoValue /\ p > 5 /\ Abs(es) >= 20 THEN "statistical"
       ELSE "conceptual"

MetricsUpdated == call.op \in {"check_convergence", "generate_convergence_report"}

\* A quotient lies in [0, 1]
InUnitInterval(q) == q.den > 0 /\ 0 <= q.num /\ q.num <= q.den

\* The quotient q is the number a / b
IsRatio(q, a, b) == q.den > 0 /\ q.num * b = a * q.den

\* C16: after every metrics update, by check_convergence or by
\* generate_convergence_report, discovery_rate and saturation_ratio lie in
\* [0, 1]; discovery_rate is the number of results with supports_hypothesis
\* true over the number of results, 0 without results, and saturation_ratio
\* is the plan's tested hypotheses over its pool.
C16_Rates ==
    MetricsUpdated =>
        /\ InUnitInterval(metrics.discovery_rate)
        /\ InUnitInterval(metrics.saturation_ratio)
        /\ IF call.results = <<>>
           THEN metrics.discovery_rate.num = 0
           ELSE IsRatio(metrics.discovery_rate, SignificantCount, Len(call.results))
        /\ plan.hypothesis_pool > 0 =>
              IsRatio(metrics.saturation_ratio, plan.tested_hypotheses, plan.hypothesis_pool)

\* C16 witness: a report was generated from three results, two of them
\* supporting, on a plan with one of two hypotheses tested
C16_Witness ==
    /\ call.op = "generate_convergence_report"
    /\ Len(call.results) = 3 /\ SignificantCount = 2
    /\ metrics.discovery_rate = Quotient(2, 3)
    /\ plan.tested_hypotheses = 1 /\ plan.hypothesis_pool = 2
    /\ metrics.saturation_ratio = Quotient(1, 2)

\* The metrics a detector that was never called before holds after the call
\* just made, the cost the caller accounted being the same
FreshMetrics(cost, p, c) ==
    UpdateMetrics([InitMetrics EXCEPT !.total_cost = cost], p, c.hypotheses, c.results)

\* C17 as stated: after check_convergence the stored metrics, novelty_trend
\* included, and the returned decision are those of a detector with another
\* call history given the same inputs, here a detector never called before.
C17_AsStated ==
    call.op = "check_convergence" =>
        /\ metrics = FreshMetrics(metrics.total_cost, plan, call)
        /\ decision = Decide(mandatory_criteria, optional_criteria,
                             FreshMetrics(metrics.total_cost, plan, call), plan)

C17_Step ==
    call'.op = "check_convergence" =>
        LET fresh == FreshMetrics(metrics.total_cost, plan', call') IN
        /\ metrics' = [fresh EXCEPT !.novelty_trend =
                                       Append(metrics.novelty_trend, fresh.novelty_score)]
        /\ decision' = Decide(mandatory_criteria', optional_criteria', metrics', plan')

\* C17 amended: check_convergence overwrites every stored metric from the
\* inputs of the call, except that novelty_trend is the earlier trend with
\* the call's current novelty appended and that cost_per_discovery divides
\* the total cost the caller accounted; the decision is the one the
\* criteria give on these metrics and the plan.
C17_OverwritesButTrend == [][C17_Step]_vars

\* C17 witness: a second call stops for novelty decline on the trend 0.5,
\* 0.2 where a detector never called before holds the trend 0.2
C17_Witness ==
    /\ call.op = "check_convergence"
    /\ metrics.novelty_trend = <<5, 2>>
    /\ decision.should_stop /\ decision.reason = NOVELTY_DECLINE
    /\ ~Decide(mandatory_criteria, optional_criteria,
               FreshMetrics(metrics.total_cost, plan, call), plan).should_stop

\* C18: when every call of check_convergence was made with hypotheses that
\* hold no novelty score, novelty_decline is not the reason of a stopping
\* decision, and the decision of the criterion itself has should_stop false
\* and confidence 0.0.
C18_AsStated ==
    /\ call.op = "check_convergence" =>
          ~(decision.should_stop /\ decision.reason = NOVELTY_DECLINE)
    /\ call.op = "check_novelty_decline" =>
          decision = StoppingDecision(FALSE, NOVELTY_DECLINE, FALSE, 0)

\* The criterion names _check_criterion knows
KnownKinds == MandatoryKinds \cup OptionalKinds

\* The places of the scan that hold a name _check_criterion does not know
UnknownIndices == { i \in 1..Len(ScanOrder) : ScanOrder[i] \notin KnownKinds }

\* C19: a criterion name the detector does not know, in either list,
\* evaluates to a decision with should_stop false and confidence 0.0, and
\* check_convergence goes on with the criteria listed after it: the unknown
\* name is never the cause of a stop, and a criterion listed after it that
\* is the first one met gives the decision.
C19_UnknownCriterion ==
    (call.op = "check_convergence" /\ UnknownIndices # {}) =>
        /\ \A i \in UnknownIndices : \A mandatory \in BOOLEAN :
              LET d == CheckCriterion(ScanOrder[i], metrics, plan, mandatory)
              IN ~d.should_stop /\ d.confidence = 0
        /\ decision.should_stop =>
              decision.reason \in KnownKinds /\ Met(decision.reason)
        /\ \A i \in MetIndices :
              (\A j \in 1..(i - 1) : ~Met(ScanOrder[j])) => decision = StopOf(ScanOrder[i])

\* C19 witness: both lists start with an unknown name, and the criterion
\* listed after the second one, diminishing_returns, stopped the loop
C19_Witness ==
    /\ call.op = "check_convergence"
    /\ mandatory_criteria[1] \notin KnownKinds /\ optional_criteria[1] \notin KnownKinds
    /\ optional_criteria[2] = DIMINISHING_RETURNS
    /\ decision = StoppingDecision(TRUE, DIMINISHING_RETURNS, FALSE, 7)

\* The criterion lists the caller passed to the constructor
PassedLists ==
    { args \in CriteriaArgs :
        /\ mandatory_criteria = OrDefault(args.mandatory, DefaultMandatory)
        /\ optional_criteria = OrDefault(args.optional, DefaultOptional) }

\* C20: a criterion that is in neither list the caller passed to the
\* constructor is never the reason of a stopping decision, for every list
\* the caller can pass, the empty list included.
C20_AsStated ==
    (call.op = "check_convergence" /\ decision.should_stop) =>
        \A args \in PassedLists :
            (args.mandatory.given /\ args.optional.given) =>
                decision.reason \in Names(args.mandatory.list) \cup Names(args.optional.list)

\* C14: after any sequence of process_result_feedback and apply_feedback
\* calls, every signal process_result_feedback has emitted is in exactly one
\* of the pending queue and the applied queue, once.
C14_AsStated ==
    \A sid \in 1..(next_signal - 1) :
        Occurrences(pending_signals, sid) + Occurrences(applied_signals, sid) = 1

(***************************************************************************)
(* Properties of the categorised memories                                  *)
(***************************************************************************)

\* The retention predicate of C12 at time t; created within the last
\* prune_after_days days: less than prune_after_days days old
Retained(memory, t) ==
    \/ memory.importance >= min_importance_to_keep
    \/ t - memory.created_at < prune_after_days
    \/ memory.access_count > 0

RetainedOf(list, t) ==
    LET Keep(memory) == Retained(memory, t) IN SelectSeq(list, Keep)

AddOps == {"add_memory", "add_success_memory", "add_failure_memory",
           "add_dead_end_memory", "add_insight_memory"}

\* A step in which add_memory stored a memory and pruned its category
AddPruned ==
    /\ mq'.op \in AddOps /\ ~mq'.raised
    /\ Len(memories[mq'.category]) + 1 > max_memories \div Cardinality(Categories)

C12_Step ==
    /\ mq'.op = "prune_old_memories" =>
          \A c \in Categories : memories'[c] = RetainedOf(memories[c], now)
    /\ AddPruned =>
          LET after == memories'[mq'.category] IN
          /\ Len(after) >= 1
          /\ after[Len(after)].id = next_memory
          /\ SubSeq(after, 1, Len(after) - 1) = RetainedOf(memories[mq'.category], now)
    /\ ShouldKeep(Memory(1, GENERAL, <<"note">>, 95, {}, 0), 40)
    /\ ~ShouldKeep(Memory(1, GENERAL, <<"note">>, 10, {}, 0), 40)

\* C12: when _prune_category runs on a category, through prune_old_memories
\* or through an add_memory that outgrows the category's share, a memory of
\* the category is retained iff its importance is at least
\* min_importance_to_keep, or it is less than prune_after_days days old, or
\* its access_count is above 0, and the retained memories keep their order;
\* with 30 days and 0.3 a 40-day-old never-accessed memory of importance
\* 0.95 is retained and one of importance 0.1 is removed.
C12_PruneRetention == [][C12_Step]_vars

\* C12 witness: prune_old_memories ran on day 40, kept a never-accessed
\* memory of importance 0.95 created on day 0 and removed one of importance 0.1
C12_Witness ==
    /\ mq.op = "prune_old_memories" /\ now = 40
    /\ \E m \in Stored(memories) :
          m.importance = 95 /\ m.created_at = 0 /\ m.access_count = 0
    /\ \E m \in mq.removed :
          m.importance = 10 /\ m.created_at = 0 /\ m.access_count = 0

ReturnedIds == { mq'.returned[i] : i \in 1..Len(mq'.returned) }

C13_Step ==
    mq'.op = "query_memory" =>
        /\ \A i, j \in 1..Len(mq'.returned) : mq'.returned[i] = mq'.returned[j] => i = j
        /\ ReturnedIds \subseteq { m.id : m \in Stored(memories) }
        /\ \A c \in Categories :
              /\ Len(memories'[c]) = Len(memories[c])
              /\ \A i \in 1..Len(memories[c]) :
                    /\ memories'[c][i].id = memories[c][i].id
                    /\ memories'[c][i].access_count =
                          memories[c][i].access_count
                            + (IF memories[c][i].id \in ReturnedIds THEN 1 ELSE 0)

\* C13: each call of query_memory raises access_count by exactly 1 for every
\* memory it returns and leaves it unchanged for every stored memory it does
\* not return, filtered out or ranked beyond the limit.
C13_QueryAccess == [][C13_Step]_vars

\* C13 witness: a query over all categories returned one memory, now
\* accessed once, and left a memory that passes every filter unaccessed
C13_Witness ==
    /\ mq.op = "query_memory" /\ mq.category = None /\ Len(mq.returned) = 1
    /\ \E m \in Stored(memories) : m.id = mq.returned[1] /\ m.access_count = 1
    /\ \E m \in Stored(memories) :
          /\ m.id # mq.returned[1] /\ m.access_count = 0
          /\ m.importance >= 30 /\ "a" \in m.tags

\* The places of the store: a category and an index of its list
Places == { <<c, i>> : c \in Categories, i \in 1..MaxMemories + 1 }
Filled == { pl \in Places : pl[2] <= Len(memories[pl[1]]) }

\* C15: in every reachable state each stored Memory is in exactly one
\* category list, once, and that list is the one of its category field.
C15_Categories ==
    /\ \A pl \in Filled : memories[pl[1]][pl[2]].category = pl[1]
    /\ \A pl \in Filled, ql \in Filled :
          memories[pl[1]][pl[2]].id = memories[ql[1]][ql[2]].id => pl = ql
    /\ \A c \in Categories : Len(memories[c]) <= MaxMemories

\* C15 witness: a pruning removed a memory of the general list and kept a
\* memory that a wrapper stored in another list and a query accessed
C15_Witness ==
    /\ mq.op = "prune_old_memories"
    /\ \E m \in mq.removed : m.category = GENERAL
    /\ \E c \in Categories \ {GENERAL} : \E i \in 1..Len(memories[c]) :
          memories[c][i].category = c /\ memories[c][i].access_count > 0

\* The number of memories the store holds
TotalStored == Cardinality(Stored(memories))

\* C26: after any sequence of add_memory calls, the store holds at most
\* max_memories memories, and once add_memory has returned no category
\* holds more than max_memories / number_of_categories of them.
C26_AsStated ==
    /\ TotalStored <= max_memories
    /\ (mq.op \in AddOps /\ ~mq.raised) =>
          \A c \in Categories : Len(memories[c]) * Cardinality(Categories) <= max_memories

\* C28: the experiment-signature map is append-only: no step removes a
\* recorded signature or changes any of its fields (a second record_experiment
\* for the same statement and protocol under another hypothesis id included),
\* and the number of signatures never decreases
C28_Step ==
    /\ \A key \in DOMAIN experiment_signatures :
          /\ key \in DOMAIN experiment_signatures'
          /\ experiment_signatures'[key] = experiment_signatures[key]
    /\ Cardinality(DOMAIN experiment_signatures') >= Cardinality(DOMAIN experiment_signatures)

C28_AsStated == [][C28_Step]_vars


\* C27: query_memory never fails: a query against a category that holds no
\* memories, or against a category value that is no known category, returns
\* an empty list, raises no error and changes no stored state
C27_Step ==
    (/\ mq'.op = "query_memory" /\ mq'.category # None
     /\ (mq'.category \in Categories => memories[mq'.category] = <<>>)) =>
        /\ ~mq'.raised
        /\ mq'.returned = <<>>
        /\ memories' = memories
        /\ experiment_signatures' = experiment_signatures

C27_AsStated == [][C27_Step]_vars


\* The stored memory of an id, and whether memory a scores at least as high
\* as (strictly higher than) memory b at time t, the score being
\* importance / (1 + days since creation)
MemoryOf(mems, id) == CHOOSE m \in Stored(mems) : m.id = id
ScoreAtLeast(a, b, t) ==
    a.importance * (1 + (t - b.created_at)) >= b.importance * (1 + (t - a.created_at))
ScoreHigher(a, b, t) == ~ScoreAtLeast(b, a, t)

\* The filters of a query q as the claim states them
PassesFilters(m, q) ==
    /\ (q.category # None => m.category = q.category)
    /\ m.importance >= q.min_importance
    /\ (q.tags # {} => m.tags \cap q.tags # {})

\* What a returning query q must have returned from the store it was asked of
C29_Returned(q, mems, returned, t) ==
    /\ Len(returned) <= q.limit
    /\ \A i \in 1..Len(returned) :
          /\ \E m \in Stored(mems) : m.id = returned[i]
          /\ PassesFilters(MemoryOf(mems, returned[i]), q)
    /\ \A i, j \in 1..Len(returned) :
          i < j => ScoreAtLeast(MemoryOf(mems, returned[i]), MemoryOf(mems, returned[j]), t)
    /\ \A m \in Stored(mems) :
          (PassesFilters(m, q) /\ \A i \in 1..Len(returned) : returned[i] # m.id) =>
              \A i \in 1..Len(returned) : ~ScoreHigher(m, MemoryOf(mems, returned[i]), t)

C29_Step ==
    \A q \in RankedQueries :
        (QueryMemory(q.category, q.tags, q.min_importance, q.limit) /\ ~mq'.raised) =>
            C29_Returned(q, memories, mq'.returned, now)

\* C29: query_memory returns at most `limit` memories, each in the requested
\* category (any when none is given), of importance >= min_importance and
\* sharing a tag with the requested tags when tags are given; the list is
\* ordered by importance / (1 + days since creation) descending, and no
\* memory that passes the filters with a strictly higher score than a
\* returned one is left out.
C29_QueryResults == [][C29_Step]_vars

\* C29 witness: a query returned two memories, the more recent one first
\* although it is the less important one
C29_Witness ==
    /\ mq.op = "query_memory" /\ ~mq.raised /\ Len(mq.returned) = 2
    /\ MemoryOf(memories, mq.returned[1]).importance
          < MemoryOf(memories, mq.returned[2]).importance
    /\ MemoryOf(memories, mq.returned[1]).created_at
          > MemoryOf(memories, mq.returned[2]).created_at


\* The stored memories of the success, failure and dead-end categories whose
\* lower-cased words have at least three in common with those of a statement
SimilarTo(mems, statement) ==
    { m \in Stored(mems) :
        /\ m.category \in {SUCCESS_PATTERNS, FAILURE_PATTERNS, DEAD_ENDS}
        /\ Cardinality(Keywords(statement) \cap Keywords(m.content)) >= 3 }

\* What a search must have returned, `similar` being the memories similar
\* to the searched statement and `importance` the importances of the
\* returned memories in their order
C30_Returned(similar, returned, importance) ==
    /\ \A i, j \in 1..Len(returned) : returned[i] = returned[j] => i = j
    /\ \A i \in 1..Len(returned) : \E m \in similar : m.id = returned[i]
    /\ Len(returned) = Min(5, Cardinality(similar))
    /\ \A i, j \in 1..Len(returned) : i < j => importance[i] >= importance[j]
    /\ \A m \in similar :
          (\A i \in 1..Len(returned) : returned[i] # m.id) =>
              \A i \in 1..Len(returned) : m.importance <= importance[i]

C30_Step ==
    \A hypothesis \in SearchHypotheses :
        (mq'.op = "search_similar_hypothesis" /\ SearchSimilarHypothesis(hypothesis)) =>
            C30_Returned(SimilarTo(memories, hypothesis.statement), mq'.returned,
                         [i \in 1..Len(mq'.returned) |->
                             MemoryOf(memories, mq'.returned[i]).importance])

\* C30: search_similar_hypothesis returns exactly the memories of the success,
\* failure and dead-end categories (never insight or general) whose
\* lower-cased word set shares at least 3 words with that of the hypothesis
\* statement, sorted by importance descending and cut to the 5 most important.
C30_SimilarSearch == [][C30_Step]_vars

\* C30 witness: a search returned five memories of different importance
\* while six stored memories are similar to the searched statement
C30_Witness ==
    /\ mq.op = "search_similar_hypothesis" /\ Len(mq.returned) = 5
    /\ \E hypothesis \in SearchHypotheses :
          Cardinality(SimilarTo(memories, hypothesis.statement)) = 6
    /\ MemoryOf(memories, mq.returned[1]).importance
          > MemoryOf(memories, mq.returned[5]).importance


\* What a step leaves in the success-pattern table: a merged pattern has the
\* running mean (old_rate * (n - 1) + 1) / n as its success_rate and its
\* confidence raised by 0.1 up to 1.0; no confidence decreases; every
\* pattern has confidence min(1.0, 0.5 + 0.1 * (occurrences - 1)) and both
\* figures within [0, 1]
C31_Step ==
    /\ Len(success_patterns') >= Len(success_patterns)
    /\ \A i \in 1..Len(success_patterns) :
          \E old \in {success_patterns[i]}, new \in {success_patterns'[i]} :
             /\ new.confidence >= old.confidence
             /\ new.occurrences # old.occurrences =>
                   /\ new.occurrences = old.occurrences + 1
                   /\ new.success_rate.num * (old.success_rate.den * new.occurrences)
                        = (old.success_rate.num * (new.occurrences - 1) + old.success_rate.den)
                            * new.success_rate.den
                   /\ new.confidence = Min(10, old.confidence + 1)
    /\ \A i \in 1..Len(success_patterns') :
          \E new \in {success_patterns'[i]} :
             /\ new.confidence = Min(10, 5 + (new.occurrences - 1))
             /\ new.confidence >= 0 /\ new.confidence <= 10
             /\ new.success_rate.den > 0 /\ new.success_rate.num >= 0
             /\ new.success_rate.num <= new.success_rate.den

\* C31: each merge of a successful result into an existing pattern recomputes
\* success_rate as (old_rate * (n - 1) + 1.0) / n with n the new occurrence
\* count and raises confidence by 0.1 capped at 1.0; after n occurrences of a
\* pattern created with confidence 0.5 its confidence is
\* min(1.0, 0.5 + 0.1 * (n - 1)); success_rate and confidence stay within
\* [0, 1] and confidence never decreases.
C31_MergeStatistics == [][C31_Step]_vars

\* C31 witness: a pattern merged so often that the cap holds its confidence
\* at 1.0, below 0.5 + 0.1 * (n - 1)
C31_Witness ==
    \E i \in 1..Len(success_patterns) :
        /\ success_patterns[i].occurrences = 7
        /\ success_patterns[i].confidence = 10


\* C32: the success_pattern signal a call returns carries the stored pattern
\* as it stands after the call: its pattern_id, occurrences, examples and
\* confidence are those of the pattern in the table, merged or new
C32_AsStated ==
    (fb.op = "process_result_feedback" /\ ~fb.raised) =>
        \A k \in 1..Len(fb.returned) :
            fb.returned[k].signal_type = "success_pattern" =>
                \E i \in 1..Len(success_patterns) :
                    /\ success_patterns[i].pattern_id = fb.returned[k].data.pattern_id
                    /\ fb.returned[k].data.pattern = success_patterns[i]
                    /\ fb.returned[k].confidence = success_patterns[i].confidence


FailureCategories == {"execution_error", "underpowered", "statistical", "conceptual"}

\* The ids of the processed failed results of one category, in their order
ExamplesOf(category) ==
    LET InCategory(result) == IsFailure(result) /\ CategoryOf(result) = category
        failed == SelectSeq(processed, InCategory)
    IN [i \in 1..Len(failed) |-> failed[i].id]

\* The recommended fixes C33 gives a category
FixedFixes(category) ==
    CASE category = "underpowered" ->
           <<"Increase sample size", "Use more sensitive statistical test",
             "Reduce measurement error">>
      [] category = "statistical" ->
           <<"Check for outliers", "Verify assumptions", "Consider non-parametric test">>
      [] category = "conceptual" ->
           <<"Refine hypothesis", "Add moderating variables", "Explore boundary conditions">>
      [] category = "execution_error" -> <<"Review experimental design">>

\* C33: the failure-pattern table holds at most one pattern per failure
\* category, so at most four; a pattern's occurrences is the number of failed
\* results categorized into it, its examples are the ids of those results,
\* and its recommended fixes are the fixed list of its category.
C33_FailureMerging ==
    /\ Len(failure_patterns) <= 4
    /\ \A i, j \in 1..Len(failure_patterns) :
          failure_patterns[i].failure_type = failure_patterns[j].failure_type => i = j
    /\ \A i \in 1..Len(failure_patterns) :
          \E pattern \in {failure_patterns[i]} :
             /\ pattern.failure_type \in FailureCategories
             /\ pattern.examples = ExamplesOf(pattern.failure_type)
             /\ pattern.occurrences = Len(pattern.examples)
             /\ pattern.recommended_fixes = FixedFixes(pattern.failure_type)
    /\ \A category \in FailureCategories :
          ExamplesOf(category) # <<>> =>
              \E i \in 1..Len(failure_patterns) :
                  failure_patterns[i].failure_type = category

\* C33 witness: four patterns, one per category, the underpowered one merged
\* from two different results
C33_Witness ==
    /\ Len(failure_patterns) = 4
    /\ \E i \in 1..Len(failure_patterns) :
          /\ failure_patterns[i].failure_type = "underpowered"
          /\ failure_patterns[i].occurrences = 2
          /\ failure_patterns[i].examples[1] # failure_patterns[i].examples[2]


\* A step of add_memory (a Memory object was created), on the category of
\* the call, whose list held `before` and holds `after`
C34_Step ==
    next_memory' = next_memory + 1 =>
        \E c \in {mq'.category} :
        \E before \in {memories[c]}, after \in {memories'[c]} :
           /\ \A d \in Categories \ {c} : memories'[d] = memories[d]
           /\ experiment_signatures' = experiment_signatures
           /\ mq'.removed \subseteq { before[i] : i \in 1..Len(before) }
           /\ (Len(before) + 1) * Cardinality(Categories) <= max_memories =>
                 /\ mq'.removed = {}
                 /\ Len(after) = Len(before) + 1
                 /\ SubSeq(after, 1, Len(before)) = before
           /\ Len(after) >= 1 /\ after[Len(after)].id = next_memory

\* C34: pruning is category-local: add_memory into category c prunes only
\* when c's list exceeds max_memories / number_of_categories after the
\* insertion, prunes only c's list and leaves the lists of all other
\* categories and the experiment-signature map unchanged; when the threshold
\* is not exceeded, add_memory removes nothing at all.
C34_CategoryLocal == [][C34_Step]_vars

\* C34 witness: an add_memory pruned its own category while another category
\* keeps an old, unimportant, never-accessed memory and an experiment is on
\* record
C34_Witness ==
    /\ mq.op = "add_memory" /\ mq.removed # {}
    /\ DOMAIN experiment_signatures # {}
    /\ \E d \in Categories \ {mq.category} :
          \E i \in 1..Len(memories[d]) :
              /\ memories[d][i].importance < min_importance_to_keep
              /\ memories[d][i].created_at <= now - prune_after_days
              /\ memories[d][i].access_count = 0


\* Both callers have returned, their results being of one test type
BothReturned ==
    /\ \A t \in Threads : threads[t].pc = "done"
    /\ threads[1].result.primary_test = threads[2].result.primary_test

\* C35: concurrent callers on one FeedbackLoop are serialized: when two
\* process_result_feedback calls for successful results of the same test type
\* interleave, the final state is that of some sequential order: exactly one
\* success pattern for the test type, with occurrences 2 and both result ids
\* in its examples, no two patterns sharing a pattern id, and the signals of
\* both calls in the pending queue
C35_AsStated ==
    BothReturned =>
        /\ Len(success_patterns) = 1
        /\ success_patterns[1].occurrences = 2
        /\ \A t \in Threads :
              \E k \in 1..Len(success_patterns[1].examples) :
                  success_patterns[1].examples[k] = threads[t].result.id
        /\ \A i, j \in 1..Len(success_patterns) :
              success_patterns[i].pattern_id = success_patterns[j].pattern_id => i = j
        /\ Len(pending_signals) = 4
        /\ \A t \in Threads :
              \E k \in 1..Len(pending_signals) :
                  /\ pending_signals[k].signal_type = "success_pattern"
                  /\ pending_signals[k].source = threads[t].result.id


\* C36: an applied decrease_confidence signal never leaves the hypothesis
\* with a confidence greater than the confidence c it had, and an applied
\* increase_confidence signal never leaves it with a smaller one, for every
\* c in [0, 1], c = 0.0 included
C36_AsStated ==
    (fb.op = "apply_feedback" /\ fb.found /\ fb.old_conf # NoConf) =>
        /\ fb.action = "decrease_confidence" => hypotheses[fb.hypothesis_id] <= fb.old_conf
        /\ fb.action = "increase_confidence" => hypotheses[fb.hypothesis_id] >= fb.old_conf


\* A step of check_convergence or generate_convergence_report
UpdateCalled ==
    /\ call'.op \in {"check_convergence", "generate_convergence_report"}
    /\ metrics' # metrics \/ call' # call \/ decision' # decision

\* Every metrics update appends one observation to the trend and nothing
\* else touches the trend
TrendGrowsByOne ==
    IF UpdateCalled
    THEN /\ Len(metrics'.novelty_trend) = Len(metrics.novelty_trend) + 1
         /\ SubSeq(metrics'.novelty_trend, 1, Len(metrics.novelty_trend))
               = metrics.novelty_trend
    ELSE metrics'.novelty_trend = metrics.novelty_trend

\* The last check_convergence was the W-th in a row to see the same latest
\* non-null novelty score, and no criterion of the mandatory list is met
SameScoreWindow ==
    /\ call.op = "check_convergence"
    /\ \E i \in 1..Len(call.hypotheses) : call.hypotheses[i] # NoScore
    /\ HasWindow
    /\ \A i \in WindowIndices :
          metrics.novelty_trend[i] = metrics.novelty_trend[Len(metrics.novelty_trend)]
    /\ ~\E c \in Names(mandatory_criteria) : Met(c)

StoppedForNovelty == decision.should_stop /\ decision.reason = NOVELTY_DECLINE

C38_NoCostNoStop ==
    /\ metrics.total_cost = 0
    /\ \/ metrics.cost_per_discovery = NoQuotient
       \/ metrics.cost_per_discovery.num = 0 /\ metrics.cost_per_discovery.den > 0
    /\ \A threshold \in Thresholds :
          ~DiminishingReturnsAt(metrics, threshold).should_stop
    /\ ~(decision.should_stop /\ decision.reason = DIMINISHING_RETURNS)

\* C38 witness: diminishing_returns was evaluated on a defined cost per
\* discovery (there are significant results) and did not stop
C38_Witness ==
    /\ call.op = "check_diminishing_returns"
    /\ metrics.significant_results > 0
    /\ metrics.total_experiments > metrics.significant_results
    /\ metrics.cost_per_discovery # NoQuotient
    /\ decision = StoppingDecision(FALSE, DIMINISHING_RETURNS, FALSE, 3)


\* The memory with the given id is stored in its category, accessed at
\* least count times
Holds(mems, id, category, count) ==
    \E i \in 1..Len(mems[category]) :
        /\ mems[category][i].id = id
        /\ mems[category][i].access_count >= count

C39_Step ==
    /\ (mq'.op = "query_memory" /\ ~mq'.raised) =>
          \A k \in 1..Len(mq'.returned) :
             \E m \in Stored(memories') : m.id = mq'.returned[k] /\ m.access_count > 0
    /\ \A m \in Stored(memories) :
          m.access_count > 0 => Holds(memories', m.id, m.category, m.access_count)
    /\ mq'.op = "search_similar_hypothesis" => memories' = memories

\* C39: a memory that query_memory returned has access_count > 0, which
\* never decreases, and no later add_memory or prune_old_memories removes
\* it, whatever its importance and age; search_similar_hypothesis records
\* no access and leaves every access_count unchanged
C39_AccessedRetained == [][C39_Step]_vars

\* C39 witness: a pruning removed an old unimportant memory and kept one
\* as old and as unimportant that a query had returned
C39_Witness ==
    /\ mq.op \in {"prune_old_memories", "add_memory"}
    /\ mq.removed # {}
    /\ \E m \in Stored(memories) :
          /\ m.access_count > 0
          /\ m.importance < min_importance_to_keep
          /\ m.created_at <= now - prune_after_days
          /\ \E r \in mq.removed : r.created_at = m.created_at /\ r.importance = m.importance


C40_Step ==
    /\ \A h \in MemHypotheses, p \in DupProtocols, th \in SimilarityThresholds :
          (dup'.called /\ dup'.hypothesis = h /\ dup'.protocol = p
              /\ IsDuplicateExperimentWith(h, p, th)) =>
             /\ experiment_signatures' = experiment_signatures
             /\ memories' = memories
             /\ dup'.ret = is_duplicate_experiment(experiment_signatures, h, p)
    /\ \A h \in MemHypotheses, p \in Protocols :
          is_duplicate_experiment(experiment_signatures, h, p)[1]
             => is_duplicate_experiment(experiment_signatures', h, p)[1]

====
